---- MODULE Spec2Model ----
(***************************************************************************)
(* A model of the expense toolkit's ingestion pipeline and review queue:   *)
(* the import orchestrator (app/services/import_service.py with its        *)
(* endpoints in app/routers/import_xlsx.py) and the queue operations of    *)
(* app/routers/queue.py, over the tables of app/models.                    *)
(*                                                                         *)
(* Conventions.  The variables import_history, bank_accounts and           *)
(* raw_expenses hold the COMMITTED rows of the SQLite tables; what a       *)
(* request has added to its SQLAlchemy session but not yet committed lives *)
(* in that worker's entry of sess.  Integer 0 stands for a NULL foreign    *)
(* key, NoCount for a NULL counter.  Amounts are Numeric(10,2) values held *)
(* as integer cents, dates are day numbers, text is a tuple of characters. *)
(***************************************************************************)
EXTENDS Integers, Sequences, FiniteSets, TLC

\* ------------------------------------------------------------------------
\* Bounds
\* ------------------------------------------------------------------------
MaxJobs == 3            \* uploads per behaviour, requests served one at a time
MaxRaceJobs == 2        \* uploads per behaviour, requests served concurrently

\* ------------------------------------------------------------------------
\* Program constants
\* ------------------------------------------------------------------------
NumWorkers == 2         \* gunicorn worker processes
Workers == 1..NumWorkers

NoCount == -1           \* records_imported / records_skipped IS NULL
NoText == <<>>          \* error_message IS NULL

\* ------------------------------------------------------------------------
\* Text
\* ------------------------------------------------------------------------
CAFE == <<"C", "a", "f", "e">>
BAR == <<"B", "a", "r">>
CARD_CAFE == <<"C", "A", "R", "D", " ", "C", "a", "f", "e">>
CARD_BAR == <<"C", "A", "R", "D", " ", "B", "a", "r">>
XLSX_IMPORT == <<"x", "l", "s", "x">>
ERR_UNKNOWN_FORMAT == <<"U", "n", "k", "n", "o", "w", "n">>
ERR_INTEGRITY == <<"I", "n", "t", "e", "g", "r", "i", "t", "y">>

\* ------------------------------------------------------------------------
\* Parsed transactions and files
\* ------------------------------------------------------------------------
\* BankParser.generate_external_id: md5 of "date|amount|raw_description",
\* first 16 hex digits.  The digest is kept symbolic: it is determined by
\* the three hashed fields and by nothing else.
generate_external_id(transaction) ==
    <<"md5", transaction.transaction_date, transaction.amount,
      transaction.raw_description>>

Tx(d, a, c, m, desc) ==
    LET t == [transaction_date |-> d, amount |-> a, currency |-> c,
              raw_merchant_name |-> m, raw_description |-> desc]
    IN [transaction_date |-> d, amount |-> a, currency |-> c,
        raw_merchant_name |-> m, raw_description |-> desc,
        external_id |-> generate_external_id(t)]

T1 == Tx(1, -1599, "EUR", CAFE, CARD_CAFE)
T2 == Tx(1, -1599, "EUR", BAR, CARD_BAR)
T3 == Tx(3, -999, "USD", CAFE, CARD_CAFE)

\* What parse_bank_file gives for each uploaded file: ok = FALSE is the
\* ValueError of an unknown format or a missing header row.
FA == [name |-> "a.csv", ok |-> TRUE, bank_name |-> "Revolut", txs |-> <<T1, T3>>]
FB == [name |-> "b.csv", ok |-> TRUE, bank_name |-> "Revolut", txs |-> <<T3, T2>>]
FC == [name |-> "c.csv", ok |-> TRUE, bank_name |-> "Revolut", txs |-> <<T1, T1, T1>>]
FD == [name |-> "d.csv", ok |-> TRUE, bank_name |-> "Revolut", txs |-> <<T1, T2, T1>>]
FX == [name |-> "x.csv", ok |-> FALSE, bank_name |-> "Unknown", txs |-> <<>>]
Files == {FA, FB, FC, FD, FX}

\* ------------------------------------------------------------------------
\* Statement files by their cells, and the four parsers
\* ------------------------------------------------------------------------
MaxParseJobs == 2       \* statement files uploaded while the parsers are exercised

DigitChars == <<"0", "1", "2", "3", "4", "5", "6", "7", "8", "9">>

RECURSIVE NatStr(_)
NatStr(n) ==
    IF n < 10 THEN <<DigitChars[n + 1]>>
    ELSE NatStr(n \div 10) \o <<DigitChars[(n % 10) + 1]>>

ERR_NO_HEADER == <<"h", "e", "a", "d", "e", "r">>
ERR_INVALID_OPERATION == <<"I", "n", "v", "a", "l", "i", "d">>

\* A cell as pandas hands it over: a number (kept in cents), a text, or NaN.
Num(cents) == [t |-> "num", n |-> cents, s |-> <<>>]
Txt(chars) == [t |-> "str", n |-> 0, s |-> chars]
NaN == [t |-> "nan", n |-> 0, s |-> <<>>]

\* datetime.strptime(text, format).date() as a day number; 0 is ValueError.
strptime(text, format) ==
    CASE format = "%Y-%m-%d" /\ text = "2024-01-01" -> 1
      [] format = "%Y-%m-%d" /\ text = "2024-01-03" -> 3
      [] format = "%d/%m/%Y" /\ text = "01/01/2024" -> 1
      [] format = "%d/%m/%Y" /\ text = "03/01/2024" -> 3
      [] OTHER -> 0

RECURSIVE NatVal(_)
NatVal(digits) ==
    IF digits = <<>> THEN 0
    ELSE NatVal(SubSeq(digits, 1, Len(digits) - 1)) * 10
         + (CHOOSE d \in 0..9 : DigitChars[d + 1] = digits[Len(digits)])

\* Decimal(text) in cents: an optional "-", digits, at most one "." (the
\* texts of the model have at most two decimals); ok = FALSE is
\* decimal.InvalidOperation.
Decimal(text) ==
    LET IsDigits(s) == \A i \in 1..Len(s) : \E d \in 1..10 : s[i] = DigitChars[d]
        Value(neg, whole, frac, dots) ==
            IF /\ Cardinality(dots) <= 1
               /\ IsDigits(whole) /\ IsDigits(frac)
               /\ Len(whole) + Len(frac) > 0
            THEN [ok |-> TRUE,
                  cents |-> (IF neg THEN -1 ELSE 1)
                            * (NatVal(whole) * 100
                               + NatVal(SubSeq(frac \o <<"0", "0">>, 1, 2)))]
            ELSE [ok |-> FALSE, cents |-> 0]
        Split(neg, body, dots, dot) ==
            Value(neg, SubSeq(body, 1, dot - 1), SubSeq(body, dot + 1, Len(body)), dots)
        Dotted(neg, body, dots) ==
            Split(neg, body, dots,
                  IF dots = {} THEN Len(body) + 1 ELSE CHOOSE i \in dots : TRUE)
        Signed(neg) ==
            Dotted(neg, IF neg THEN Tail(text) ELSE text,
                   {i \in 1..Len(text) - (IF neg THEN 1 ELSE 0) :
                       text[i + (IF neg THEN 1 ELSE 0)] = "."})
    IN Signed(text # <<>> /\ Head(text) = "-")

\* str.replace(c, '') and str.replace(c, d)
Remove(s, c) == SelectSeq(s, LAMBDA x : x # c)
Subst(s, c, d) == [i \in 1..Len(s) |-> IF s[i] = c THEN d ELSE s[i]]

\* The `try:` block every XLS parser wraps its amount in; ok = FALSE is its
\* `except Exception: continue`.
AmountOf(parser, importe) ==
    LET importe_str == importe.s
        Has(c) == \E i \in 1..Len(importe_str) : importe_str[i] = c
        amount_str ==
            IF parser = "OpenBank"
            THEN IF Has(",") /\ Has(".") THEN Subst(Remove(importe_str, "."), ",", ".")
                 ELSE IF Has(",") THEN Subst(importe_str, ",", ".")
                 ELSE importe_str
            ELSE Subst(Remove(importe_str, "."), ",", ".")
    IN IF importe.t = "num" THEN [ok |-> TRUE, cents |-> importe.n]
       ELSE Decimal(amount_str)

\* A row of a statement: the State column of a Revolut CSV, the date cell
\* (the first cell of an XLS row; "" is NaN), the amount cell, the
\* description or merchant cell and the currency cell.
Row(state, first, amount, desc, currency) ==
    [state |-> state, first |-> first, amount |-> amount, desc |-> desc,
     currency |-> currency]

\* str(cell).strip() and `'Total' in first_cell`, on the first cells the
\* statement files hold.
strip(cell) == IF cell = " FECHA " THEN "FECHA" ELSE cell
HasTotal(first_cell) == first_cell \in {"Total", "Total general"}

\* The parsers' loops over the data rows; in_data_section is the credit
\* card parser's flag.  ok = FALSE is an exception that leaves parse.
RECURSIVE ParseRows(_, _, _)
\* ParseRows with a Total row passed over and the data block left open.
ParseRows_TotalPassedOver(parser, rows, in_data_section) ==
    IF rows = <<>> THEN [ok |-> TRUE, transactions |-> <<>>, error |-> NoText]
    ELSE LET row == Head(rows)
             card == parser = "Bankinter Credit Card"
             trans_date ==
                 strptime(row.first,
                          IF parser \in {"Revolut", "Bankinter Credit Card"}
                          THEN "%Y-%m-%d" ELSE "%d/%m/%Y")
             continue == ParseRows(parser, Tail(rows), in_data_section)
             Appended(amount) ==
                 IF ~amount.ok
                 THEN IF parser = "Revolut"
                      THEN [ok |-> FALSE, transactions |-> <<>>,
                            error |-> ERR_INVALID_OPERATION]
                      ELSE continue
                 ELSE [continue EXCEPT !.transactions =
                          <<Tx(trans_date, amount.cents,
                               IF parser \in {"Revolut", "Bankinter"}
                               THEN row.currency ELSE "EUR",
                               row.desc,
                               IF parser = "Revolut"
                               THEN <<"C", "A", "R", "D", " ", "-", " ">> \o row.desc
                               ELSE row.desc)>> \o @]
         IN IF card /\ HasTotal(strip(row.first))
            THEN ParseRows(parser, Tail(rows), in_data_section)
            ELSE IF card /\ strip(row.first) = "FECHA"
            THEN ParseRows(parser, Tail(rows), TRUE)
            ELSE IF card /\ ~in_data_section THEN continue
            ELSE IF parser = "Revolut" /\ row.state # "COMPLETED" THEN continue
            ELSE IF row.first = "" THEN continue
            ELSE IF trans_date = 0 THEN continue
            ELSE IF parser # "Revolut" /\ row.amount.t = "nan" THEN continue
            ELSE Appended(IF parser = "Revolut" /\ row.amount.t = "str"
                          THEN Decimal(row.amount.s)
                          ELSE AmountOf(parser, row.amount))

ParseRows(parser, rows, in_data_section) ==
    IF rows = <<>> THEN [ok |-> TRUE, transactions |-> <<>>, error |-> NoText]
    ELSE LET row == Head(rows)
             card == parser = "Bankinter Credit Card"
             trans_date ==
                 strptime(row.first,
                          IF parser \in {"Revolut", "Bankinter Credit Card"}
                          THEN "%Y-%m-%d" ELSE "%d/%m/%Y")
             continue == ParseRows(parser, Tail(rows), in_data_section)
             Appended(amount) ==
                 IF ~amount.ok
                 THEN IF parser = "Revolut"
                      THEN [ok |-> FALSE, transactions |-> <<>>,
                            error |-> ERR_INVALID_OPERATION]
                      ELSE continue
                 ELSE [continue EXCEPT !.transactions =
                          <<Tx(trans_date, amount.cents,
                               IF parser \in {"Revolut", "Bankinter"}
                               THEN row.currency ELSE "EUR",
                               row.desc,
                               IF parser = "Revolut"
                               THEN <<"C", "A", "R", "D", " ", "-", " ">> \o row.desc
                               ELSE row.desc)>> \o @]
         IN IF card /\ HasTotal(strip(row.first))
            THEN ParseRows(parser, Tail(rows), FALSE)
            ELSE IF card /\ strip(row.first) = "FECHA"
            THEN ParseRows(parser, Tail(rows), TRUE)
            ELSE IF card /\ ~in_data_section THEN continue
            ELSE IF parser = "Revolut" /\ row.state # "COMPLETED" THEN continue
            ELSE IF row.first = "" THEN continue
            ELSE IF trans_date = 0 THEN continue
            ELSE IF parser # "Revolut" /\ row.amount.t = "nan" THEN continue
            ELSE Appended(IF parser = "Revolut" /\ row.amount.t = "str"
                          THEN Decimal(row.amount.s)
                          ELSE AmountOf(parser, row.amount))

\* parse of the parser class named by its bank_name; header_row is the
\* position of the first row holding the header text, 0 for none.
parse(parser, filepath) ==
    LET header == IF parser = "Bankinter" THEN "Fecha contable"
                  ELSE "Fecha Operacion"
        found == {k \in 1..Len(filepath.rows) : filepath.rows[k].first = header}
        header_row == IF found = {} THEN 0
                      ELSE CHOOSE k \in found : \A l \in found : k <= l
        sheet == parser \in {"Bankinter", "OpenBank"}
    IN IF sheet /\ header_row = 0
       THEN [ok |-> FALSE, transactions |-> <<>>, error |-> ERR_NO_HEADER]
       ELSE ParseRows(parser,
                      IF sheet
                      THEN SubSeq(filepath.rows, header_row + 1, Len(filepath.rows))
                      ELSE filepath.rows,
                      parser # "Bankinter Credit Card")

\* can_parse of the parser class named by its bank_name.  A file is known
\* by its suffix (lower case), whether its first bytes are HTML, the marker
\* texts the header of its first column contains and its CSV column names.
can_parse(parser, filepath) ==
    CASE parser = "Revolut" ->
            /\ filepath.suffix = ".csv"
            /\ {"Type", "Description", "Amount", "Currency"} \subseteq filepath.columns
      [] parser = "Bankinter" ->
            /\ filepath.suffix \in {".xlsx", ".xls"}
            /\ ~filepath.html
            /\ "MOVIMIENTOS DE LA CUENTA" \in filepath.first_col
      [] parser = "Bankinter Credit Card" ->
            /\ filepath.suffix = ".xls"
            /\ ~filepath.html
            /\ "tarjeta" \in filepath.first_col
      [] parser = "OpenBank" ->
            /\ filepath.suffix = ".xls"
            /\ filepath.html

PARSERS == <<"Revolut", "Bankinter", "Bankinter Credit Card", "OpenBank">>

\* detect_parser with the last parser that can parse the file returned.
detect_parser_Last(filepath) ==
    LET able == {k \in 1..Len(PARSERS) : can_parse(PARSERS[k], filepath)}
    IN IF able = {} THEN "None"
       ELSE PARSERS[CHOOSE k \in able : \A l \in able : l <= k]

\* detect_parser: `for parser_cls in PARSERS: if can_parse: return`
detect_parser(filepath) ==
    LET able == {k \in 1..Len(PARSERS) : can_parse(PARSERS[k], filepath)}
    IN IF able = {} THEN "None"
       ELSE PARSERS[CHOOSE k \in able : \A l \in able : k <= l]

\* The statement files uploaded while the parsers are exercised.  Amount
\* texts are "1.234,56", "123,45", "1234.56" and "abc"; title and header are
\* the rows above the data of a workbook.
StatementFiles ==
    LET thousands == <<"1", ".", "2", "3", "4", ",", "5", "6">>
        comma == <<"1", "2", "3", ",", "4", "5">>
        plain == <<"1", "2", "3", "4", ".", "5", "6">>
        bad == <<"a", "b", "c">>
        revolut_columns ==
            {"Type", "Started Date", "Completed Date", "Description", "Amount",
             "Currency", "State"}
        title == Row("", "Movimientos", NaN, NoText, "")
        header(text) ==
            Row("", text, Txt(<<"I", "m", "p", "o", "r", "t", "e">>), NoText, "")
        File(name, suffix, html, first_col, columns, rows) ==
            [name |-> name, suffix |-> suffix, html |-> html,
             first_col |-> first_col, columns |-> columns, rows |-> rows]
    IN {\* Revolut: a pending row and a row dated in another format
        File("r.csv", ".csv", FALSE, {}, revolut_columns,
             <<Row("COMPLETED", "2024-01-01", Num(-1599), CAFE, "EUR"),
               Row("PENDING", "2024-01-03", Num(-999), BAR, "EUR"),
               Row("COMPLETED", "01/01/2024", Num(-999), BAR, "USD"),
               Row("COMPLETED", "2024-01-03", Num(-999), BAR, "USD")>>),
        \* Revolut: an Amount column that holds a text that is no number
        File("rb.csv", ".csv", FALSE, {}, revolut_columns,
             <<Row("COMPLETED", "2024-01-01", Txt(plain), CAFE, "EUR"),
               Row("COMPLETED", "2024-01-03", Txt(bad), BAR, "EUR"),
               Row("COMPLETED", "2024-01-03", Txt(plain), BAR, "EUR")>>),
        \* Bankinter account: rows with a bad date and a bad amount
        File("b.xlsx", ".xlsx", FALSE, {"MOVIMIENTOS DE LA CUENTA"}, {},
             <<title, header("Fecha contable"),
               Row("", "01/01/2024", Txt(thousands), CAFE, "EUR"),
               Row("", "2024-01-01", Num(-999), BAR, "EUR"),
               Row("", "03/01/2024", Txt(bad), BAR, "EUR"),
               Row("", "03/01/2024", Num(-999), BAR, "EUR")>>),
        \* Bankinter account: an amount text with a decimal point
        File("bd.xlsx", ".xlsx", FALSE, {"MOVIMIENTOS DE LA CUENTA"}, {},
             <<header("Fecha contable"),
               Row("", "01/01/2024", Txt(plain), CAFE, "EUR")>>),
        \* Bankinter account: no header row
        File("bn.xlsx", ".xlsx", FALSE, {"MOVIMIENTOS DE LA CUENTA"}, {},
             <<title, Row("", "01/01/2024", Num(-1599), CAFE, "EUR")>>),
        \* Bankinter credit card: bad rows, a Total row and a row below it
        File("c.xls", ".xls", FALSE, {"tarjeta"}, {},
             <<title, header("FECHA"),
               Row("", "2024-01-01", Txt(comma), CAFE, ""),
               Row("", "01/01/2024", Num(-999), BAR, ""),
               Row("", "2024-01-03", NaN, BAR, ""),
               Row("", "Total", Num(-2598), NoText, ""),
               Row("", "2024-01-03", Num(-999), BAR, "")>>),
        \* Bankinter credit card: no header row
        File("cn.xls", ".xls", FALSE, {"tarjeta"}, {},
             <<title, Row("", "2024-01-01", Num(-1599), CAFE, "")>>),
        \* Bankinter credit card: two data blocks with rows before, between
        \* and after them
        File("c2.xls", ".xls", FALSE, {"tarjeta"}, {},
             <<title,
               Row("", "2024-01-01", Num(-111), BAR, ""),
               header("FECHA"),
               Row("", "2024-01-01", Num(-1599), CAFE, ""),
               Row("", "Total general", Num(-1599), NoText, ""),
               Row("", "2024-01-03", Num(-222), BAR, ""),
               header(" FECHA "),
               Row("", "2024-01-03", Num(-999), BAR, ""),
               Row("", "Total", Num(-999), NoText, ""),
               Row("", "2024-01-03", Num(-333), BAR, "")>>),
        \* both Bankinter titles in the first column, the account's rows
        File("cb.xls", ".xls", FALSE, {"MOVIMIENTOS DE LA CUENTA", "tarjeta"}, {},
             <<header("Fecha contable"),
               Row("", "01/01/2024", Num(-1599), CAFE, "EUR")>>),
        \* both Bankinter titles in the first column, the card's rows
        File("cc.xls", ".xls", FALSE, {"MOVIMIENTOS DE LA CUENTA", "tarjeta"}, {},
             <<header("FECHA"), Row("", "2024-01-01", Num(-1599), CAFE, "")>>),
        \* OpenBank (HTML under an .xls name): the three amount formats
        File("o.xls", ".xls", TRUE, {}, {},
             <<title, header("Fecha Operacion"),
               Row("", "01/01/2024", Txt(thousands), CAFE, ""),
               Row("", "03/01/2024", Txt(comma), BAR, ""),
               Row("", "03/01/2024", Txt(bad), BAR, ""),
               Row("", "03/01/2024", Txt(plain), BAR, "")>>),
        \* OpenBank: no header row
        File("on.xls", ".xls", TRUE, {}, {},
             <<title, Row("", "01/01/2024", Num(-1599), CAFE, "")>>),
        \* no parser's file: a CSV without Revolut's columns
        File("x.csv", ".csv", FALSE, {}, {"Date", "Amount"},
             <<Row("COMPLETED", "2024-01-01", Num(-1599), CAFE, "EUR")>>),
        \* no parser's file: a workbook with another first column
        File("x.xls", ".xls", FALSE, {"Extracto"}, {},
             <<header("FECHA"), Row("", "2024-01-01", Num(-1599), CAFE, "")>>)}

\* parse_bank_file with a message that does not name the file.
parse_bank_file_NoName(filepath, file) ==
    LET unknown == ERR_UNKNOWN_FORMAT
        Result(parser, parsed) ==
            IF parser = "None"
            THEN [ok |-> FALSE, bank_name |-> "Unknown", transactions |-> <<>>,
                  error |-> unknown]
            ELSE [ok |-> parsed.ok, bank_name |-> parser,
                  transactions |-> parsed.transactions, error |-> parsed.error]
        Parse(parser) == Result(parser, parse(parser, file))
    IN IF "rows" \in DOMAIN file
       THEN Parse(detect_parser(file))
       ELSE [ok |-> file.ok, bank_name |-> file.bank_name, transactions |-> file.txs,
             error |-> IF file.ok THEN NoText ELSE unknown]

\* parse_bank_file(filepath), the file being either one of the statement
\* files above or one of FA..FX; filepath.name is the stored file name,
\* which the model keeps as the job's number.
parse_bank_file(filepath, file) ==
    LET unknown == ERR_UNKNOWN_FORMAT \o <<" ">> \o NatStr(filepath)
        Result(parser, parsed) ==
            IF parser = "None"
            THEN [ok |-> FALSE, bank_name |-> "Unknown", transactions |-> <<>>,
                  error |-> unknown]
            ELSE [ok |-> parsed.ok, bank_name |-> parser,
                  transactions |-> parsed.transactions, error |-> parsed.error]
        Parse(parser) == Result(parser, parse(parser, file))
    IN IF "rows" \in DOMAIN file
       THEN Parse(detect_parser(file))
       ELSE [ok |-> file.ok, bank_name |-> file.bank_name, transactions |-> file.txs,
             error |-> IF file.ok THEN NoText ELSE unknown]

Hints == {0, 1}         \* the optional bank_account_id form field of an upload
RaceFiles == {FA, FB, FX}   \* the files uploaded while requests are raced

\* ------------------------------------------------------------------------
\* State
\* ------------------------------------------------------------------------
VARIABLES
    import_history,     \* committed import_history rows, a sequence indexed by id
    bank_accounts,      \* committed bank_accounts rows: bank_name, indexed by id
    raw_expenses,       \* committed raw_expenses rows
    db_lock,            \* the worker holding SQLite's write lock, 0 when free
    sess,               \* per worker: the request it is serving and its session
    response,           \* HTTP status of the last finished request
    prev_run,           \* history: summary of the last finished process_import
    run_log,            \* history: per job, its last run and that run's predecessor
    expenses,           \* committed expenses rows
    merchant_aliases,   \* committed merchant_aliases rows
    tags,               \* committed tags rows
    expense_tags,       \* committed expense_tags rows
    rules,              \* committed rules rows, a sequence in id order
    last_op,            \* history: the last queue request and how it ended
    duplicates,         \* the body of the last find_duplicates or apply_rules response
    raw_notifications,  \* committed raw_notifications rows, a sequence indexed by id
    parsed_expenses,    \* the parsed_expenses of the last parse-all response
    merged              \* history: per merged expense still stored, the raw ids merged

\* The tables only the review queue writes.
queue_vars ==
    <<expenses, merchant_aliases, tags, expense_tags, rules, last_op, duplicates,
      raw_notifications, parsed_expenses, merged>>

vars == <<import_history, bank_accounts, raw_expenses, db_lock, sess, response,
          prev_run, run_log, expenses, merchant_aliases, tags, expense_tags,
          rules, last_op, duplicates, raw_notifications, parsed_expenses,
          merged>>

\* No find_duplicates response: the empty map.
NoDuplicates == <<>>

\* History: no queue request has been served yet.
NoOp == [op |-> "none", outcome |-> "none", done |-> 0, skipped |-> 0]

NoRun == [job |-> 0, file |-> "", account |-> 0, outcome |-> "none",
          serial |-> FALSE, fresh |-> FALSE, n |-> 0, imported |-> 0,
          skipped |-> 0, created |-> 0, conflict |-> FALSE]

\* History: the run_log entry of a job no process_import has touched.
NoRuns == [last |-> NoRun, pred |-> NoRun, starts |-> 0]

Idle == [pc |-> "idle", kind |-> "none", pending |-> <<>>, todo |-> <<>>, job |-> 0,
         acct |-> 0,
         newacct |-> "", set_acct |-> FALSE, txs |-> <<>>, i |-> 1, seen |-> {},
         adds |-> <<>>, imported |-> 0, skipped |-> 0, poisoned |-> FALSE,
         err |-> NoText, overlap |-> FALSE, pred |-> NoRun, fresh |-> FALSE]

JobIds == 1..Len(import_history)

\* ------------------------------------------------------------------------
\* Tables
\* ------------------------------------------------------------------------
SetMax(S) == IF S = {} THEN 0 ELSE CHOOSE m \in S : \A x \in S : x <= m

\* SQLite INTEGER PRIMARY KEY without AUTOINCREMENT: largest rowid plus one.
NextId(rows) == SetMax({r.id : r \in rows}) + 1

\* upload_xlsx: the ImportHistory row of a new upload.
NewImportRecord(file, hint, id) ==
    [filename |-> file.name, stored_filename |-> id, file |-> file,
     bank_account_id |-> hint, status |-> "pending",
     records_imported |-> NoCount, records_skipped |-> NoCount,
     error_message |-> NoText]

\* get_or_create_bank_account's query: .first() of the accounts of that bank.
FindAccount(accounts, bank_name) ==
    LET ids == {a \in 1..Len(accounts) : accounts[a] = bank_name}
    IN IF ids = {} THEN 0 ELSE CHOOSE a \in ids : \A b \in ids : a <= b

\* The duplicate query of the import loop.
ExistingRaw(raws, account, external_id) ==
    \E r \in raws : r.bank_account_id = account /\ r.external_id = external_id

\* The RawExpense the import loop builds (its id comes with the INSERT).
NewRawExpense(account, tx, stored_filename) ==
    [id |-> 0, bank_account_id |-> account, external_id |-> tx.external_id,
     transaction_date |-> tx.transaction_date, amount |-> tx.amount,
     currency |-> tx.currency, raw_merchant_name |-> tx.raw_merchant_name,
     raw_description |-> tx.raw_description, source |-> XLSX_IMPORT,
     source_file |-> stored_filename]

\* LoopStep with a row found in the database counted as imported.
LoopStep_ExistingCounted(s, raws) ==
    LET tx == s.txs[s.i]
        external_id == tx.external_id
    IN IF external_id \in s.seen
       THEN [s EXCEPT !.skipped = @ + 1, !.i = @ + 1]
       ELSE IF ExistingRaw(raws, s.acct, external_id)
       THEN [s EXCEPT !.imported = @ + 1, !.seen = @ \cup {external_id},
                      !.i = @ + 1]
       ELSE [s EXCEPT !.adds = Append(@, NewRawExpense(s.acct, tx, s.job)),
                      !.imported = @ + 1, !.seen = @ \cup {external_id},
                      !.i = @ + 1]

\* LoopStep with a row already seen in this import counted as imported.
LoopStep_SeenCounted(s, raws) ==
    LET tx == s.txs[s.i]
        external_id == tx.external_id
    IN IF external_id \in s.seen
       THEN [s EXCEPT !.imported = @ + 1, !.i = @ + 1]
       ELSE IF ExistingRaw(raws, s.acct, external_id)
       THEN [s EXCEPT !.skipped = @ + 1, !.seen = @ \cup {external_id},
                      !.i = @ + 1]
       ELSE [s EXCEPT !.adds = Append(@, NewRawExpense(s.acct, tx, s.job)),
                      !.imported = @ + 1, !.seen = @ \cup {external_id},
                      !.i = @ + 1]

\* LoopStep with a row already seen in this import passed over uncounted.
LoopStep_SeenUncounted(s, raws) ==
    LET tx == s.txs[s.i]
        external_id == tx.external_id
    IN IF external_id \in s.seen
       THEN [s EXCEPT !.i = @ + 1]
       ELSE IF ExistingRaw(raws, s.acct, external_id)
       THEN [s EXCEPT !.skipped = @ + 1, !.seen = @ \cup {external_id},
                      !.i = @ + 1]
       ELSE [s EXCEPT !.adds = Append(@, NewRawExpense(s.acct, tx, s.job)),
                      !.imported = @ + 1, !.seen = @ \cup {external_id},
                      !.i = @ + 1]

\* One iteration of the loop `for tx in transactions` of process_import.
LoopStep(s, raws) ==
    LET tx == s.txs[s.i]
        external_id == tx.external_id
    IN IF external_id \in s.seen
       THEN [s EXCEPT !.skipped = @ + 1, !.i = @ + 1]
       ELSE IF ExistingRaw(raws, s.acct, external_id)
       THEN [s EXCEPT !.skipped = @ + 1, !.seen = @ \cup {external_id},
                      !.i = @ + 1]
       ELSE [s EXCEPT !.adds = Append(@, NewRawExpense(s.acct, tx, s.job)),
                      !.imported = @ + 1, !.seen = @ \cup {external_id},
                      !.i = @ + 1]

\* A raw_expenses table without its unique constraint.
UniqueViolation_None(raws, adds) == FALSE

\* uix_bank_external: would flushing these rows break the unique constraint?
UniqueViolation(raws, adds) ==
    \/ \E k \in 1..Len(adds) :
          ExistingRaw(raws, adds[k].bank_account_id, adds[k].external_id)
    \/ \E k, l \in 1..Len(adds) :
          /\ k < l
          /\ adds[k].bank_account_id = adds[l].bank_account_id
          /\ adds[k].external_id = adds[l].external_id

\* The INSERTs of a flush, in the order the rows were added.
RECURSIVE InsertRows(_, _)
InsertRows(raws, adds) ==
    IF adds = <<>> THEN raws
    ELSE InsertRows(raws \cup {[Head(adds) EXCEPT !.id = NextId(raws)]},
                    Tail(adds))

\* The transactions the duplicate check of a run would find already stored.
FreshFor(raws, account, txs) ==
    \A k \in 1..Len(txs) : ~ExistingRaw(raws, account, txs[k].external_id)

\* ------------------------------------------------------------------------
\* process_import, step by step
\* ------------------------------------------------------------------------
\* The tables and history a step of process_import reads and writes.  Each
\* step below maps a world W and the session s of the worker taking the step
\* to the world and session after it.
World ==
    [import_history |-> import_history, bank_accounts |-> bank_accounts,
     raw_expenses |-> raw_expenses, db_lock |-> db_lock,
     response |-> response, prev_run |-> prev_run, run_log |-> run_log]

\* import_service.get_pending_imports / the query of process_all_pending:
\* the pending jobs, oldest first.
RECURSIVE PendingFrom(_, _)
PendingFrom(history, j) ==
    IF j > Len(history) THEN <<>>
    ELSE IF history[j].status = "pending"
         THEN <<j>> \o PendingFrom(history, j + 1)
         ELSE PendingFrom(history, j + 1)

\* What a worker does once process_import has returned or raised: a
\* process-all request goes on to its next record, unless its session was
\* left in a failed transaction: the failed flush expired every record, and
\* reading record.id for the result entry raises, which ends the request.
Continue(s, poisoned) ==
    IF s.kind = "all" /\ s.todo # <<>> /\ ~poisoned
    THEN [Idle EXCEPT !.pc = "mark", !.kind = "all", !.job = Head(s.todo),
                      !.todo = Tail(s.todo), !.pending = s.pending]
    ELSE Idle

\* The HTTP status of the request that ends here.
StatusAfter(s, poisoned, code) ==
    IF s.kind = "all"
    THEN IF poisoned THEN 500 ELSE 200
    ELSE code

\* History: what a finished run of process_import did.
Summary(W, s, outcome, created, conflict) ==
    [job |-> s.job, file |-> W.import_history[s.job].file.name,
     account |-> s.acct, outcome |-> outcome, serial |-> ~s.overlap, fresh |-> s.fresh,
     n |-> Len(s.txs),
     imported |-> IF outcome = "returned" THEN s.imported ELSE 0,
     skipped |-> IF outcome = "returned" THEN s.skipped ELSE 0,
     created |-> created, conflict |-> conflict]

\* process_import has returned ("returned") or re-raised ("raised").
Finish(W, s, outcome, created, conflict, poisoned, code) ==
    LET summary == Summary(W, s, outcome, created, conflict)
        next == Continue(s, poisoned)
    IN [W |-> [W EXCEPT !.prev_run = summary,
                        !.run_log[s.job] = [@ EXCEPT !.last = summary, !.pred = s.pred],
                        !.response = IF next.pc = "idle"
                                     THEN StatusAfter(s, poisoned, code) ELSE @],
        s |-> next]

\* The rows of a session's flush reach the tables and the lock is released.
CommitRows(W, s) ==
    [W EXCEPT !.raw_expenses = InsertRows(@, s.adds),
              !.bank_accounts = IF s.newacct # "" THEN Append(@, s.newacct) ELSE @,
              !.db_lock = 0]

\* process_import: status = "processing"; db.commit()
DoMark(W, s, others_busy) ==
    [W |-> [W EXCEPT !.import_history[s.job].status = "processing",
                     !.run_log[s.job].starts = @ + 1],
     s |-> [s EXCEPT !.pc = "parse", !.pred = W.prev_run, !.overlap = others_busy]]

\* process_import: what follows get_or_create_bank_account, up to the loop:
\* the assignment of import_record.bank_account_id and the empty counters.
EnterLoop(W, s, account, created) ==
    LET record == W.import_history[s.job]
        transactions == parse_bank_file(record.stored_filename, record.file).transactions
    IN [s EXCEPT !.pc = IF transactions = <<>> THEN "commit" ELSE "loop",
                 !.acct = account,
                 !.newacct = created,
                 !.set_acct = record.bank_account_id = 0,
                 !.txs = transactions,
                 !.fresh = FreshFor(W.raw_expenses, account, transactions)]

\* process_import: parse_bank_file and the query of
\* get_or_create_bank_account
DoParse(W, s) ==
    LET parsed == parse_bank_file(W.import_history[s.job].stored_filename,
                                  W.import_history[s.job].file)
        found == FindAccount(W.bank_accounts, parsed.bank_name)
    IN IF ~parsed.ok
       THEN [W |-> W, s |-> [s EXCEPT !.pc = "handler", !.err = parsed.error]]
       ELSE IF found = 0
       THEN [W |-> W, s |-> [s EXCEPT !.pc = "account"]]
       ELSE [W |-> W, s |-> EnterLoop(W, s, found, "")]

\* get_or_create_bank_account: db.add(account); db.flush().  The INSERT
\* takes SQLite's write lock, which the session keeps until it commits.
DoAccount(W, s, w) ==
    LET parsed == parse_bank_file(W.import_history[s.job].stored_filename,
                                  W.import_history[s.job].file)
    IN [W |-> [W EXCEPT !.db_lock = w],
        s |-> EnterLoop(W, s, Len(W.bank_accounts) + 1, parsed.bank_name)]

\* process_import: one iteration of the loop over the transactions
DoLoop(W, s) ==
    LET t == LoopStep(s, W.raw_expenses)
    IN [W |-> W,
        s |-> [t EXCEPT !.pc = IF t.i > Len(t.txs) THEN "commit" ELSE "loop"]]

\* process_import: status = "completed", the counts, db.commit(); return.
\* An IntegrityError out of the flush rolls the transaction back and leaves
\* the session refusing further work until rollback() is called.
DoCommit(W, s) ==
    IF UniqueViolation(W.raw_expenses, s.adds)
    THEN [W |-> [W EXCEPT !.db_lock = 0],
          s |-> [s EXCEPT !.pc = "handler", !.poisoned = TRUE,
                          !.err = ERR_INTEGRITY, !.adds = <<>>, !.newacct = ""]]
    ELSE LET C == CommitRows(W, s)
             D == [C EXCEPT !.import_history[s.job] =
                      [@ EXCEPT !.status = "completed",
                                !.records_imported = s.imported,
                                !.records_skipped = s.skipped,
                                !.bank_account_id = IF s.set_acct THEN s.acct ELSE @]]
         IN Finish(D, s, "returned",
                   Cardinality(C.raw_expenses) - Cardinality(W.raw_expenses),
                   FALSE, FALSE, 200)

\* process_import: except Exception: status = "failed", error_message,
\* db.commit(); raise.  In a session whose transaction has failed the
\* commit raises PendingRollbackError and nothing is written.
DoHandler(W, s) ==
    IF s.poisoned
    THEN Finish(W, s, "raised", 0, TRUE, TRUE, 500)
    ELSE LET C == CommitRows(W, s)
             D == [C EXCEPT !.import_history[s.job] =
                      [@ EXCEPT !.status = "failed",
                                !.error_message = s.err,
                                !.bank_account_id = IF s.set_acct THEN s.acct ELSE @]]
         IN Finish(D, s, "raised",
                   Cardinality(C.raw_expenses) - Cardinality(W.raw_expenses),
                   FALSE, FALSE, 400)

\* The step a worker in session state s takes next.
StepOf(W, s, w, others_busy) ==
    CASE s.pc = "mark" -> DoMark(W, s, others_busy)
      [] s.pc = "parse" -> DoParse(W, s)
      [] s.pc = "account" -> DoAccount(W, s, w)
      [] s.pc = "loop" -> DoLoop(W, s)
      [] s.pc = "commit" -> DoCommit(W, s)
      [] s.pc = "handler" -> DoHandler(W, s)

\* A request served with no other request in flight runs to its end.
RECURSIVE RunRequest(_, _)
RunRequest(W, s) ==
    IF s.pc = "idle" THEN W
    ELSE LET r == StepOf(W, s, 1, FALSE) IN RunRequest(r.W, r.s)

\* ------------------------------------------------------------------------
\* Import requests
\* ------------------------------------------------------------------------
Init ==
    /\ import_history = <<>>
    /\ bank_accounts = <<>>
    /\ raw_expenses = {}
    /\ db_lock = 0
    /\ sess = [w \in Workers |-> Idle]
    /\ response = 0
    /\ prev_run = NoRun
    /\ run_log = <<>>
    /\ expenses = {}
    /\ merchant_aliases = {}
    /\ tags = {}
    /\ expense_tags = {}
    /\ rules = <<>>
    /\ last_op = NoOp
    /\ duplicates = NoDuplicates
    /\ raw_notifications = <<>>
    /\ parsed_expenses = {}
    /\ merged = {}

Busy(w) == sess[w].pc # "idle"

\* History: a request that starts while other requests are in flight overlaps them.
StartRequest(w, s) ==
    [v \in Workers |->
        IF v = w THEN s
        ELSE IF Busy(v) THEN [sess[v] EXCEPT !.overlap = TRUE] ELSE sess[v]]

\* The tables take the values of world W.
Store(W) ==
    /\ import_history' = W.import_history
    /\ bank_accounts' = W.bank_accounts
    /\ raw_expenses' = W.raw_expenses
    /\ db_lock' = W.db_lock
    /\ response' = W.response
    /\ prev_run' = W.prev_run
    /\ run_log' = W.run_log
    /\ UNCHANGED queue_vars

\* Worker w takes the step r.
Take(w, r) == Store(r.W) /\ sess' = [sess EXCEPT ![w] = r.s]

\* POST /xlsx
upload_xlsx(file, hint) ==
    /\ \E w \in Workers : ~Busy(w)
    /\ db_lock = 0
    /\ import_history' = Append(import_history,
                                NewImportRecord(file, hint, Len(import_history) + 1))
    /\ run_log' = Append(run_log, NoRuns)
    /\ response' = 200
    /\ UNCHANGED <<bank_accounts, raw_expenses, db_lock, sess, prev_run>>
    /\ UNCHANGED queue_vars

\* The session of a request POST /process/{import_id} that passed its checks.
ProcessOne(import_id) ==
    [Idle EXCEPT !.pc = "mark", !.kind = "one", !.job = import_id]

\* The session of a request POST /process-all that found pending records.
ProcessAll(pending) ==
    [Idle EXCEPT !.pc = "mark", !.kind = "all", !.pending = pending,
                 !.job = Head(pending), !.todo = Tail(pending)]

\* POST /process/{import_id} on worker w, up to the call of process_import
process_import_file(w, import_id) ==
    /\ ~Busy(w)
    /\ import_id \in JobIds
    /\ import_history[import_id].status = "pending"
    /\ sess' = StartRequest(w, ProcessOne(import_id))
    /\ UNCHANGED <<import_history, bank_accounts, raw_expenses, db_lock,
                   response, prev_run, run_log>>
    /\ UNCHANGED queue_vars

\* POST /process-all on worker w, up to the first call of process_import
process_all_pending(w) ==
    /\ ~Busy(w)
    /\ LET pending == PendingFrom(import_history, 1)
       IN /\ pending # <<>>
          /\ sess' = StartRequest(w, ProcessAll(pending))
    /\ UNCHANGED <<import_history, bank_accounts, raw_expenses, db_lock,
                   response, prev_run, run_log>>
    /\ UNCHANGED queue_vars

MarkProcessing(w) ==
    /\ sess[w].pc = "mark"
    /\ db_lock = 0
    /\ Take(w, DoMark(World, sess[w], \E v \in Workers \ {w} : Busy(v)))

ParseFile(w) ==
    /\ sess[w].pc = "parse"
    /\ Take(w, DoParse(World, sess[w]))

CreateAccount(w) ==
    /\ sess[w].pc = "account"
    /\ db_lock = 0
    /\ Take(w, DoAccount(World, sess[w], w))

LoopIter(w) ==
    /\ sess[w].pc = "loop"
    /\ Take(w, DoLoop(World, sess[w]))

FinalCommit(w) ==
    /\ sess[w].pc = "commit"
    /\ db_lock \in {0, w}
    /\ Take(w, DoCommit(World, sess[w]))

Handler(w) ==
    /\ sess[w].pc = "handler"
    /\ sess[w].poisoned \/ db_lock \in {0, w}
    /\ Take(w, DoHandler(World, sess[w]))

\* Requests raced on the two workers.
NextImport ==
    \/ /\ Len(import_history) < MaxRaceJobs
       /\ \E file \in RaceFiles : upload_xlsx(file, 0)
    \/ \E w \in Workers, j \in 1..MaxRaceJobs : process_import_file(w, j)
    \/ \E w \in Workers : process_all_pending(w)
    \/ \E w \in Workers : MarkProcessing(w)
    \/ \E w \in Workers : ParseFile(w)
    \/ \E w \in Workers : CreateAccount(w)
    \/ \E w \in Workers : LoopIter(w)
    \/ \E w \in Workers : FinalCommit(w)
    \/ \E w \in Workers : Handler(w)

\* The Revolut account may be there already, left by an earlier import of a
\* statement without completed rows.
InitImport ==
    /\ import_history = <<>>
    /\ bank_accounts \in {<<>>, <<"Revolut">>}
    /\ raw_expenses = {}
    /\ db_lock = 0
    /\ sess = [w \in Workers |-> Idle]
    /\ response = 0
    /\ prev_run = NoRun
    /\ run_log = <<>>
    /\ expenses = {}
    /\ merchant_aliases = {}
    /\ tags = {}
    /\ expense_tags = {}
    /\ rules = <<>>
    /\ last_op = NoOp
    /\ duplicates = NoDuplicates
    /\ raw_notifications = <<>>
    /\ parsed_expenses = {}
    /\ merged = {}

SpecImport == InitImport /\ [][NextImport]_vars

\* POST /process/{import_id} served alone, from its checks to its response
process_import_file_alone(import_id) ==
    /\ \A w \in Workers : ~Busy(w)
    /\ import_id \in JobIds
    /\ import_history[import_id].status = "pending"
    /\ Store(RunRequest(World, ProcessOne(import_id)))
    /\ UNCHANGED sess

\* POST /process/{import_id} answered 404 or 400
process_import_file_rejected(import_id) ==
    /\ \A w \in Workers : ~Busy(w)
    /\ \/ import_id \notin JobIds /\ response' = 404
       \/ /\ import_id \in JobIds
          /\ import_history[import_id].status # "pending"
          /\ response' = 400
    /\ UNCHANGED <<import_history, bank_accounts, raw_expenses, db_lock, sess,
                   prev_run, run_log>>
    /\ UNCHANGED queue_vars

\* POST /process-all served alone
process_all_pending_alone ==
    /\ \A w \in Workers : ~Busy(w)
    /\ LET pending == PendingFrom(import_history, 1)
       IN IF pending = <<>>
          THEN Store([World EXCEPT !.response = 200])
          ELSE Store(RunRequest(World, ProcessAll(pending)))
    /\ UNCHANGED sess

\* Requests served one at a time.
Next ==
    \/ /\ Len(import_history) < MaxJobs
       /\ \E file \in Files, hint \in Hints : upload_xlsx(file, hint)
    \/ \E j \in 1..MaxJobs : process_import_file_alone(j)
    \/ \E j \in 1..MaxJobs : process_import_file_rejected(j)
    \/ process_all_pending_alone

Spec == Init /\ [][Next]_vars

\* Statement files uploaded and processed one at a time.
NextParse ==
    \/ /\ Len(import_history) < MaxParseJobs
       /\ \E file \in StatementFiles : upload_xlsx(file, 0)
    \/ \E j \in 1..MaxParseJobs : process_import_file_alone(j)

SpecParse == Init /\ [][NextParse]_vars

\* The bank_account_id an upload may carry: none (0), the id the first
\* account gets, and the id of no account.
AnyHints == Hints \cup {2}

\* Uploads with any hint, processed one at a time.
NextHints ==
    \/ /\ Len(import_history) < MaxJobs
       /\ \E file \in {FA, FB}, hint \in AnyHints : upload_xlsx(file, hint)
    \/ \E j \in 1..MaxJobs : process_import_file_alone(j)
    \/ process_all_pending_alone

SpecHints == Init /\ [][NextHints]_vars

\* ------------------------------------------------------------------------
\* Review queue: requests, rules and tables
\* ------------------------------------------------------------------------
MaxIds == 2             \* ids listed in one archive, merge or bulk-save request
MaxRules == 2           \* rows of the rules table

FOOD == <<"f", "o", "o", "d">>
PAT_CAF == <<"c", "a", "f">>
PAT_BAR == <<"b", "a", "r">>
AMT_1599 == <<"-", "1", "5", ".", "9", "9">>

Repeat(c, n) == [i \in 1..n |-> c]

\* Patterns no RuleCreate admits, as a rules row written past it may hold:
\* "c|aaa..." of 501 characters, "(c" and "c{99999999999}".
PAT_LONG == <<"c", "|">> \o Repeat("a", 499)
PAT_UNCLOSED == <<"(", "c">>
PAT_OVERFLOW == <<"c", "{">> \o Repeat("9", 11) \o <<"}">>

\* The ids of the rows of table categories.
categories == {1}

\* The statement whose import filled the queue, and the ids a request may name:
\* those of its rows and one that names no row.
FE == [name |-> "e.csv", ok |-> TRUE, bank_name |-> "Revolut", txs |-> <<T1, T2, T3>>]
RequestIds == 1..(Len(FE.txs) + 1)

\* ProcessExpenseRequest / MergeExpenseData / RuleSaveData: merchant_name
\* (NoText for None), category_id (0 for None) and tags.
D_NONE == [merchant_name |-> NoText, category_id |-> 0, tags |-> <<>>]
D_CAFE == [merchant_name |-> CAFE, category_id |-> 1, tags |-> <<FOOD>>]
D_BAR == [merchant_name |-> BAR, category_id |-> 1, tags |-> <<>>]
D_BADCAT == [merchant_name |-> CAFE, category_id |-> 2, tags |-> <<FOOD>>]
RequestData == {D_NONE, D_CAFE, D_BAR, D_BADCAT}
MergeData == {D_NONE, D_CAFE, D_BADCAT}

\* ArchiveExpensesRequest / BulkSaveRequest: raw_expense_ids, min_length 1.
IdLists == UNION {[1..n -> RequestIds] : n \in 1..MaxIds}

\* MergeExpensesRequest: raw_expense_ids, min_length 2.
MergeIdLists == {ids \in IdLists : Len(ids) >= 2}

\* Rows of table rules, as RuleCreate admits them.
R_DISCARD_XLSX ==
    [active |-> TRUE, field |-> "source", match_type |-> "exact",
     match_value |-> XLSX_IMPORT, action |-> "discard", save_data |-> D_NONE]
R_DISCARD_OFF == [R_DISCARD_XLSX EXCEPT !.active = FALSE]
R_DISCARD_BAR ==
    [active |-> TRUE, field |-> "raw_description", match_type |-> "regex",
     match_value |-> PAT_BAR, action |-> "discard", save_data |-> D_NONE]
R_SAVE_CAFE ==
    [active |-> TRUE, field |-> "raw_merchant_name", match_type |-> "regex",
     match_value |-> PAT_CAF, action |-> "save", save_data |-> D_CAFE]
R_SAVE_1599 ==
    [active |-> TRUE, field |-> "amount", match_type |-> "exact",
     match_value |-> AMT_1599, action |-> "save", save_data |-> D_BAR]
R_LONG ==
    [active |-> TRUE, field |-> "raw_merchant_name", match_type |-> "regex",
     match_value |-> PAT_LONG, action |-> "discard", save_data |-> D_NONE]
R_UNCLOSED == [R_LONG EXCEPT !.match_value = PAT_UNCLOSED]
R_OVERFLOW == [R_LONG EXCEPT !.match_value = PAT_OVERFLOW]
RulePool ==
    {R_DISCARD_XLSX, R_DISCARD_OFF, R_DISCARD_BAR, R_SAVE_CAFE, R_SAVE_1599,
     R_LONG, R_UNCLOSED, R_OVERFLOW}

\* The rules tables the queue may meet: rows in creation order.
RuleLists ==
    {rs \in UNION {[1..n -> RulePool] : n \in 0..MaxRules} :
        \A i, j \in 1..Len(rs) : i # j => rs[i] # rs[j]}

\* str(Decimal) of a Numeric(10, 2) amount, from its cents.
DecimalStr(cents) ==
    LET a == IF cents < 0 THEN -cents ELSE cents
    IN (IF cents < 0 THEN <<"-">> ELSE <<>>)
       \o NatStr(a \div 100)
       \o <<".", DigitChars[((a % 100) \div 10) + 1], DigitChars[(a % 10) + 1]>>

\* re.IGNORECASE over the letters the model's texts use.
Lower(c) ==
    CASE c = "A" -> "a" [] c = "B" -> "b" [] c = "C" -> "c"
      [] c = "D" -> "d" [] c = "R" -> "r" [] OTHER -> c

\* Compiling a pattern: "ok", or the exception sre raises.  A repetition
\* {n} of more than ten digits is at least MAXREPEAT and raises OverflowError;
\* parentheses that do not pair up raise re.error.  (No pattern of the model
\* has both faults.)
re_compile(pattern) ==
    LET Count(c) == Cardinality({i \in 1..Len(pattern) : pattern[i] = c})
        too_large ==
            \E i, j \in 1..Len(pattern) :
                /\ pattern[i] = "{" /\ pattern[j] = "}" /\ j - i - 1 > 10
                /\ \A k \in (i + 1)..(j - 1) :
                      \E d \in 1..Len(DigitChars) : pattern[k] = DigitChars[d]
    IN IF too_large THEN "OverflowError"
       ELSE IF Count("(") # Count(")") THEN "error"
       ELSE "ok"

\* The alternatives of a pattern: its pieces between the "|".
Alternatives(pattern) ==
    LET cuts == {0, Len(pattern) + 1} \cup {i \in 1..Len(pattern) : pattern[i] = "|"}
    IN {SubSeq(pattern, a + 1, b - 1) :
           <<a, b>> \in {c \in cuts \X cuts :
                            c[1] < c[2] /\ ~\E m \in cuts : c[1] < m /\ m < c[2]}}

\* re.search(pattern, text, re.IGNORECASE) for a pattern that compiles: an
\* alternation of literal texts.
re_search(pattern, text) ==
    \E alt \in Alternatives(pattern) :
        \E i \in 0..(Len(text) - Len(alt)) :
            \A k \in 1..Len(alt) : Lower(text[i + k]) = Lower(alt[k])

\* str(getattr(raw_expense, rule.field))
FieldValue(raw, field) ==
    CASE field = "raw_merchant_name" -> raw.raw_merchant_name
      [] field = "raw_description" -> raw.raw_description
      [] field = "amount" -> DecimalStr(raw.amount)
      [] field = "source" -> raw.source

_matches_rule(raw_expense, rule) ==
    LET field_value_str == FieldValue(raw_expense, rule.field)
    IN IF rule.match_type = "exact"
       THEN field_value_str = rule.match_value
       ELSE IF rule.match_type = "regex"
       THEN IF Len(rule.match_value) > 500 THEN FALSE
            ELSE IF re_compile(rule.match_value) # "ok" THEN FALSE
            ELSE re_search(rule.match_value, field_value_str)
       ELSE FALSE

\* _matches_rule raises: re.search raised something `except re.error` lets by.
MatchRaises(raw_expense, rule) ==
    /\ rule.match_type = "regex"
    /\ Len(rule.match_value) <= 500
    /\ re_compile(rule.match_value) \notin {"ok", "error"}

\* The tables a queue request reads and writes.
Tables ==
    [raw_expenses |-> raw_expenses, expenses |-> expenses,
     merchant_aliases |-> merchant_aliases, tags |-> tags,
     expense_tags |-> expense_tags]

\* db.query(RawExpense).filter(RawExpense.id == raw_id).first()
Found(raws, raw_id) == \E r \in raws : r.id = raw_id
RawOf(raws, raw_id) == CHOOSE r \in raws : r.id = raw_id

\* db.query(Expense).filter(Expense.raw_expense_id == raw_id).first()
ExistingExpense(exps, raw_id) == \E e \in exps : e.raw_expense_id = raw_id

\* The queue: raw expenses no expense links to, in rowid order.
RECURSIVE InIdOrder(_)
InIdOrder(rows) ==
    IF rows = {} THEN <<>>
    ELSE LET r == CHOOSE r \in rows : \A q \in rows : r.id <= q.id
         IN <<r>> \o InIdOrder(rows \ {r})

Pending(Q) ==
    InIdOrder({r \in Q.raw_expenses : ~ExistingExpense(Q.expenses, r.id)})

\* Expense(...) built from a raw expense (its id comes with the INSERT);
\* raw_expense_id 0 is NULL.  No Expense(...) call of the application names
\* parent_expense_id, which so stays NULL.
NewExpense(raw, raw_expense_id, merchant_alias_id, category_id, archived) ==
    [id |-> 0, raw_expense_id |-> raw_expense_id, parent_expense_id |-> 0,
     bank_account_id |-> raw.bank_account_id,
     transaction_date |-> raw.transaction_date, amount |-> raw.amount,
     currency |-> raw.currency, merchant_alias_id |-> merchant_alias_id,
     category_id |-> category_id, archived |-> archived]

\* An expenses table without the unique constraint on raw_expense_id.
ExpenseUniqueViolation_None(exps, adds) == FALSE

\* expenses.raw_expense_id UNIQUE (NULLs apart): would flushing these rows
\* break it?
ExpenseUniqueViolation(exps, adds) ==
    \/ \E k \in 1..Len(adds) :
          adds[k].raw_expense_id # 0 /\ ExistingExpense(exps, adds[k].raw_expense_id)
    \/ \E k, l \in 1..Len(adds) :
          /\ k < l
          /\ adds[k].raw_expense_id # 0
          /\ adds[k].raw_expense_id = adds[l].raw_expense_id

RECURSIVE InsertExpenses(_, _)
InsertExpenses(exps, adds) ==
    IF adds = <<>> THEN exps
    ELSE InsertExpenses(exps \cup {[Head(adds) EXCEPT !.id = NextId(exps)]},
                        Tail(adds))

\* .filter(MerchantAlias.display_name == merchant_name).first(), 0 for None
AliasByDisplayName(aliases, merchant_name) ==
    LET ids == {a.id : a \in {b \in aliases : b.display_name = merchant_name}}
    IN IF ids = {} THEN 0 ELSE CHOOSE i \in ids : \A j \in ids : i <= j

\* "Handle merchant alias": look the display name up, else add an alias and
\* flush; merchant_aliases.raw_name is UNIQUE, so the flush may fail.
ResolveAlias(Q, raw_name, merchant_name, category_id) ==
    LET found == AliasByDisplayName(Q.merchant_aliases, merchant_name)
        id == NextId(Q.merchant_aliases)
    IN IF merchant_name = NoText THEN [ok |-> TRUE, Q |-> Q, id |-> 0]
       ELSE IF found # 0 THEN [ok |-> TRUE, Q |-> Q, id |-> found]
       ELSE IF \E a \in Q.merchant_aliases : a.raw_name = raw_name
       THEN [ok |-> FALSE, Q |-> Q, id |-> 0]
       ELSE [ok |-> TRUE,
             Q |-> [Q EXCEPT !.merchant_aliases = @ \cup
                       {[id |-> id, raw_name |-> raw_name,
                         display_name |-> merchant_name,
                         default_category_id |-> category_id]}],
             id |-> id]

\* "Handle tags": get or create each tag and link the expense to it.
RECURSIVE LinkTags(_, _, _)
LinkTags(Q, expense_id, tag_names) ==
    IF tag_names = <<>> THEN Q
    ELSE LET named == {t \in Q.tags : t.name = Head(tag_names)}
             tag_id == IF named = {} THEN NextId(Q.tags)
                       ELSE (CHOOSE t \in named : TRUE).id
             R == [Q EXCEPT !.tags = @ \cup {[id |-> tag_id, name |-> Head(tag_names)]},
                            !.expense_tags = @ \cup
                                {[expense_id |-> expense_id, tag_id |-> tag_id]}]
         IN LinkTags(R, expense_id, Tail(tag_names))

\* ------------------------------------------------------------------------
\* Review queue: the handlers
\* ------------------------------------------------------------------------
\* What a handler leaves: the tables (those it found, when it raised), the
\* HTTP status, how it ended, and how many of the records it was given it
\* dealt with (done) and passed over (skipped).
Reply(Q, code, outcome, done, skipped) ==
    [Q |-> Q, code |-> code, outcome |-> outcome, done |-> done, skipped |-> skipped]

\* The alias, the expense and the tags that process_raw_expense and a save
\* rule of apply_rules create for one raw expense.
SaveAs(Q, raw, data) ==
    LET alias == ResolveAlias(Q,
                     IF raw.raw_merchant_name # NoText THEN raw.raw_merchant_name
                     ELSE data.merchant_name,
                     data.merchant_name, data.category_id)
        expense == NewExpense(raw, raw.id, alias.id, data.category_id, FALSE)
        expense_id == NextId(alias.Q.expenses)
    IN IF ~alias.ok \/ ExpenseUniqueViolation(alias.Q.expenses, <<expense>>)
       THEN [ok |-> FALSE, Q |-> Q]
       ELSE [ok |-> TRUE,
             Q |-> LinkTags([alias.Q EXCEPT !.expenses = InsertExpenses(@, <<expense>>)],
                            expense_id, data.tags)]

\* POST /queue/process
ProcessReply(Q, raw_expense_id, data) ==
    IF ~Found(Q.raw_expenses, raw_expense_id)
    THEN Reply(Q, 404, "not_found", 0, 1)
    ELSE IF ExistingExpense(Q.expenses, raw_expense_id)
    THEN Reply(Q, 400, "already_processed", 0, 1)
    ELSE IF data.category_id # 0 /\ data.category_id \notin categories
    THEN Reply(Q, 400, "category", 0, 1)
    ELSE LET saved == SaveAs(Q, RawOf(Q.raw_expenses, raw_expense_id), data)
         IN IF saved.ok THEN Reply(saved.Q, 200, "ok", 1, 0)
            ELSE Reply(Q, 500, "integrity", 0, 1)

\* DELETE /queue/{raw_expense_id}
DiscardReply(Q, raw_expense_id) ==
    IF ~Found(Q.raw_expenses, raw_expense_id)
    THEN Reply(Q, 404, "not_found", 0, 1)
    ELSE Reply([Q EXCEPT !.raw_expenses = @ \ {RawOf(@, raw_expense_id)}],
               200, "ok", 1, 0)

\* apply_rules with the last matching rule applied.
RECURSIVE FirstMatch_Last(_, _, _)
FirstMatch_Last(raw, active_rules, k) ==
    IF k > Len(active_rules) THEN 0
    ELSE LET later == FirstMatch_Last(raw, active_rules, k + 1)
         IN IF later # 0 THEN later
            ELSE IF _matches_rule(raw, active_rules[k]) THEN k
            ELSE 0

\* apply_rules: `for rule in active_rules: if _matches_rule(...): ... break`;
\* the position of the rule applied, 0 when no rule matches.
RECURSIVE FirstMatch(_, _, _)
FirstMatch(raw, active_rules, k) ==
    IF k > Len(active_rules) THEN 0
    ELSE IF _matches_rule(raw, active_rules[k]) THEN k
    ELSE FirstMatch(raw, active_rules, k + 1)

\* apply_rules: the position of the first rule whose _matches_rule call
\* raises, 0 when none does.
RECURSIVE FirstRaise(_, _, _)
FirstRaise(raw, active_rules, k) ==
    IF k > Len(active_rules) THEN 0
    ELSE IF MatchRaises(raw, active_rules[k]) THEN k
    ELSE FirstRaise(raw, active_rules, k + 1)

RECURSIVE ApplyLoop(_, _, _, _, _, _)
\* apply_rules with a discard rule that counts the record and leaves it.
ApplyLoop_DiscardCounted(Q, queue, active_rules, done, discarded, saved) ==
    IF queue = <<>>
    THEN [ok |-> TRUE, Q |-> Q, done |-> done, discarded |-> discarded,
          saved |-> saved, why |-> "none"]
    ELSE LET raw == Head(queue)
             m == FirstMatch(raw, active_rules, 1)
             x == FirstRaise(raw, active_rules, 1)
             failed(why) == [ok |-> FALSE, Q |-> Q, done |-> 0, discarded |-> 0,
                             saved |-> 0, why |-> why]
         IN IF x # 0 /\ (m = 0 \/ x < m) THEN failed("overflow_error")
            ELSE IF m = 0
            THEN ApplyLoop(Q, Tail(queue), active_rules, done, discarded, saved)
            ELSE IF active_rules[m].action = "discard"
            THEN ApplyLoop(Q, Tail(queue),
                           active_rules, done + 1, discarded + 1, saved)
            ELSE LET expense == SaveAs(Q, raw, active_rules[m].save_data)
                 IN IF expense.ok
                    THEN ApplyLoop(expense.Q, Tail(queue), active_rules, done + 1,
                                   discarded, saved + 1)
                    ELSE failed("integrity")

\* apply_rules: the loop over the raw expenses of the queue.  A rule is
\* evaluated only when no rule before it matched.  done, discarded and
\* saved are processed_count, discarded_count and saved_count.
ApplyLoop(Q, queue, active_rules, done, discarded, saved) ==
    IF queue = <<>>
    THEN [ok |-> TRUE, Q |-> Q, done |-> done, discarded |-> discarded,
          saved |-> saved, why |-> "none"]
    ELSE LET raw == Head(queue)
             m == FirstMatch(raw, active_rules, 1)
             x == FirstRaise(raw, active_rules, 1)
             failed(why) == [ok |-> FALSE, Q |-> Q, done |-> 0, discarded |-> 0,
                             saved |-> 0, why |-> why]
         IN IF x # 0 /\ (m = 0 \/ x < m) THEN failed("overflow_error")
            ELSE IF m = 0
            THEN ApplyLoop(Q, Tail(queue), active_rules, done, discarded, saved)
            ELSE IF active_rules[m].action = "discard"
            THEN ApplyLoop([Q EXCEPT !.raw_expenses = @ \ {raw}], Tail(queue),
                           active_rules, done + 1, discarded + 1, saved)
            ELSE LET expense == SaveAs(Q, raw, active_rules[m].save_data)
                 IN IF expense.ok
                    THEN ApplyLoop(expense.Q, Tail(queue), active_rules, done + 1,
                                   discarded, saved + 1)
                    ELSE failed("integrity")

ActiveRules(rs) == SelectSeq(rs, LAMBDA r : r.active)

\* POST /queue/apply-rules
ApplyReply(Q, rs) ==
    LET active_rules == ActiveRules(rs)
        queue == Pending(Q)
        pass == ApplyLoop(Q, queue, active_rules, 0, 0, 0)
    IN IF active_rules = <<>> THEN Reply(Q, 200, "no_rules", 0, 0)
       ELSE IF pass.ok THEN Reply(pass.Q, 200, "ok", pass.done, Len(queue) - pass.done)
       ELSE Reply(Q, 500, pass.why, 0, 0)

\* ApplyRulesResponse: processed, discarded and saved (NoDuplicates when the
\* request raised).
ApplyCounts(Q, rs) ==
    LET active_rules == ActiveRules(rs)
        Counts(pass) ==
            IF pass.ok
            THEN [processed |-> pass.done, discarded |-> pass.discarded,
                  saved |-> pass.saved]
            ELSE NoDuplicates
    IN IF active_rules = <<>> THEN [processed |-> 0, discarded |-> 0, saved |-> 0]
       ELSE Counts(ApplyLoop(Q, Pending(Q), active_rules, 0, 0, 0))

\* archive_raw_expenses: the expenses its loop adds to the session.
RECURSIVE ArchiveLoop(_, _)
ArchiveLoop(Q, raw_expense_ids) ==
    IF raw_expense_ids = <<>> THEN <<>>
    ELSE LET raw_id == Head(raw_expense_ids)
             rest == ArchiveLoop(Q, Tail(raw_expense_ids))
         IN IF ~Found(Q.raw_expenses, raw_id) THEN rest
            ELSE IF ExistingExpense(Q.expenses, raw_id) THEN rest
            ELSE <<NewExpense(RawOf(Q.raw_expenses, raw_id), raw_id, 0, 0, TRUE)>>
                 \o rest

\* POST /queue/archive
ArchiveReply(Q, raw_expense_ids) ==
    LET adds == ArchiveLoop(Q, raw_expense_ids)
    IN IF ExpenseUniqueViolation(Q.expenses, adds)
       THEN Reply(Q, 500, "integrity", 0, 0)
       ELSE Reply([Q EXCEPT !.expenses = InsertExpenses(@, adds)], 200, "ok",
                  Len(adds), Len(raw_expense_ids) - Len(adds))

\* merge_expenses with only the existence of each raw expense validated.
RECURSIVE MergeValidate_ExistenceOnly(_, _)
MergeValidate_ExistenceOnly(Q, raw_expense_ids) ==
    IF raw_expense_ids = <<>> THEN "ok"
    ELSE IF ~Found(Q.raw_expenses, Head(raw_expense_ids)) THEN "not_found"
    ELSE MergeValidate_ExistenceOnly(Q, Tail(raw_expense_ids))

\* merge_expenses: "Validate all raw expenses exist and are not processed"
RECURSIVE MergeValidate(_, _)
MergeValidate(Q, raw_expense_ids) ==
    IF raw_expense_ids = <<>> THEN "ok"
    ELSE IF ~Found(Q.raw_expenses, Head(raw_expense_ids)) THEN "not_found"
    ELSE IF ExistingExpense(Q.expenses, Head(raw_expense_ids))
    THEN "already_processed"
    ELSE MergeValidate(Q, Tail(raw_expense_ids))

\* merge_expenses: sum(float(raw.amount) for raw in raw_expenses), as the
\* Numeric(10, 2) column gives it back: the sum of the cents.
RECURSIVE total_amount(_)
total_amount(raws) ==
    IF raws = <<>> THEN 0 ELSE Head(raws).amount + total_amount(Tail(raws))

\* merge_expenses with the date of the first listed raw expense.
earliest_date_First(raws) == raws[1].transaction_date

\* merge_expenses: min(raw.transaction_date for raw in raw_expenses)
earliest_date(raws) ==
    LET dates == {raws[k].transaction_date : k \in 1..Len(raws)}
    IN CHOOSE d \in dates : \A e \in dates : d <= e

\* POST /queue/merge
MergeReply(Q, raw_expense_ids, data) ==
    LET valid == MergeValidate(Q, raw_expense_ids)
        raws == [k \in 1..Len(raw_expense_ids) |->
                    RawOf(Q.raw_expenses, raw_expense_ids[k])]
        alias == ResolveAlias(Q, data.merchant_name, data.merchant_name,
                              data.category_id)
        merged_expense ==
            [NewExpense(raws[1], 0, alias.id, data.category_id, FALSE)
                EXCEPT !.transaction_date = earliest_date(raws),
                       !.amount = total_amount(raws)]
        merged_id == NextId(alias.Q.expenses)
        tagged == LinkTags([alias.Q EXCEPT !.expenses =
                                InsertExpenses(@, <<merged_expense>>)],
                           merged_id, data.tags)
        adds == [k \in 1..Len(raws) |-> NewExpense(raws[k], raws[k].id, 0, 0, TRUE)]
    IN IF valid = "not_found" THEN Reply(Q, 404, valid, 0, 0)
       ELSE IF valid # "ok" THEN Reply(Q, 400, valid, 0, 0)
       ELSE IF data.category_id # 0 /\ data.category_id \notin categories
       THEN Reply(Q, 400, "category", 0, 0)
       ELSE IF ~alias.ok \/ ExpenseUniqueViolation(tagged.expenses, adds)
       THEN Reply(Q, 500, "integrity", 0, 0)
       ELSE Reply([tagged EXCEPT !.expenses = InsertExpenses(@, adds)], 200, "ok",
                  Len(raws), 0)

\* POST /queue/bulk-save: a raw expense that is neither missing nor processed
\* is read for category_id, an attribute the mapped class RawExpense does not
\* have, and the request ends there with nothing saved.
BulkSaveReply(Q, raw_expense_ids) ==
    IF \E k \in 1..Len(raw_expense_ids) :
          /\ Found(Q.raw_expenses, raw_expense_ids[k])
          /\ ~ExistingExpense(Q.expenses, raw_expense_ids[k])
    THEN Reply(Q, 500, "attribute_error", 0, 0)
    ELSE Reply(Q, 200, "ok", 0, Len(raw_expense_ids))

\* ------------------------------------------------------------------------
\* Review queue: the requests, served one at a time
\* ------------------------------------------------------------------------
\* History: the merges whose merged expense the reply leaves stored.
Merges(op, r) ==
    LET added == r.Q.expenses \ expenses
        made == IF op = "merge" /\ r.outcome = "ok"
                THEN {[expense_id |-> e.id,
                       raw_expense_ids |-> {c.raw_expense_id : c \in added} \ {0}] :
                         e \in {a \in added : a.raw_expense_id = 0}}
                ELSE {}
    IN {m \in merged \cup made : \E e \in r.Q.expenses : e.id = m.expense_id}

\* The request op ends with reply r.
Respond(op, r, body) ==
    /\ \A w \in Workers : ~Busy(w)
    /\ db_lock = 0
    /\ raw_expenses' = r.Q.raw_expenses
    /\ expenses' = r.Q.expenses
    /\ merchant_aliases' = r.Q.merchant_aliases
    /\ tags' = r.Q.tags
    /\ expense_tags' = r.Q.expense_tags
    /\ response' = r.code
    /\ last_op' = [op |-> op, outcome |-> r.outcome, done |-> r.done,
                   skipped |-> r.skipped]
    /\ prev_run' = NoRun
    /\ duplicates' = body
    /\ merged' = Merges(op, r)
    /\ UNCHANGED <<import_history, bank_accounts, db_lock, sess, run_log, rules,
                   raw_notifications, parsed_expenses>>

Answer(op, r) == Respond(op, r, NoDuplicates)

process_raw_expense(raw_expense_id, data) ==
    Answer("process", ProcessReply(Tables, raw_expense_id, data))

discard_raw_expense(raw_expense_id) ==
    Answer("discard", DiscardReply(Tables, raw_expense_id))

apply_rules ==
    Respond("apply_rules", ApplyReply(Tables, rules), ApplyCounts(Tables, rules))

archive_raw_expenses(raw_expense_ids) ==
    Answer("archive", ArchiveReply(Tables, raw_expense_ids))

merge_expenses(raw_expense_ids, data) ==
    Answer("merge", MergeReply(Tables, raw_expense_ids, data))

bulk_save_raw_expenses(raw_expense_ids) ==
    Answer("bulk_save", BulkSaveReply(Tables, raw_expense_ids))

\* GET /queue/find-duplicates: per pending raw expense with a sibling, the
\* raw expenses of another id and the expenses with its date and amount.
FindDuplicates(Q) ==
    LET queue == {r \in Q.raw_expenses : ~ExistingExpense(Q.expenses, r.id)}
        other_raw(raw_expense) ==
            {r \in Q.raw_expenses :
                /\ r.id # raw_expense.id
                /\ r.transaction_date = raw_expense.transaction_date
                /\ r.amount = raw_expense.amount}
        saved(raw_expense) ==
            {e \in Q.expenses :
                /\ e.transaction_date = raw_expense.transaction_date
                /\ e.amount = raw_expense.amount}
        hit == {r \in queue : other_raw(r) # {} \/ saved(r) # {}}
    IN [id \in {r.id : r \in hit} |->
           LET raw_expense == RawOf(Q.raw_expenses, id)
           IN {[type |-> "raw", id |-> dup.id] : dup \in other_raw(raw_expense)}
              \cup {[type |-> "saved", id |-> exp.id] : exp \in saved(raw_expense)}]

find_duplicates ==
    Respond("find_duplicates", Reply(Tables, 200, "ok", 0, 0), FindDuplicates(Tables))

NextQueue ==
    \/ \E id \in RequestIds, data \in RequestData : process_raw_expense(id, data)
    \/ apply_rules
    \/ \E ids \in IdLists : archive_raw_expenses(ids)
    \/ \E ids \in MergeIdLists, data \in MergeData : merge_expenses(ids, data)
    \/ \E ids \in IdLists : bulk_save_raw_expenses(ids)

\* Rule passes among single-record requests.
NextRules ==
    \/ apply_rules
    \/ \E id \in RequestIds, data \in {D_BAR, D_BADCAT} :
          process_raw_expense(id, data)
    \/ \E id \in RequestIds : discard_raw_expense(id)

\* The store once a statement has been uploaded and processed.
ImportedOf(file) ==
    RunRequest([import_history |-> <<NewImportRecord(file, 0, 1)>>,
                bank_accounts |-> <<>>, raw_expenses |-> {}, db_lock |-> 0,
                response |-> 0, prev_run |-> NoRun, run_log |-> <<NoRuns>>],
               ProcessOne(1))

\* The store once the statement FE has been uploaded and processed.
Imported == ImportedOf(FE)

\* The queue as an import left it.
QueueAfter(import) ==
    /\ import_history = import.import_history
    /\ bank_accounts = import.bank_accounts
    /\ raw_expenses = import.raw_expenses
    /\ db_lock = 0
    /\ sess = [w \in Workers |-> Idle]
    /\ response = import.response
    /\ prev_run = import.prev_run
    /\ run_log = import.run_log
    /\ expenses = {}
    /\ merchant_aliases = {}
    /\ tags = {}
    /\ expense_tags = {}
    /\ last_op = NoOp
    /\ duplicates = NoDuplicates
    /\ raw_notifications = <<>>
    /\ parsed_expenses = {}
    /\ merged = {}

QueueAfterImport == QueueAfter(Imported)

\* The rules tables under which all the queue requests are explored.
QueueRuleLists ==
    {<<R_DISCARD_BAR, R_SAVE_CAFE>>, <<R_SAVE_1599, R_SAVE_CAFE>>}

InitQueue == QueueAfterImport /\ rules \in QueueRuleLists

SpecQueue == InitQueue /\ [][NextQueue]_vars

InitRules == QueueAfterImport /\ rules \in RuleLists

SpecRules == InitRules /\ [][NextRules]_vars

\* ------------------------------------------------------------------------
\* Notifications
\* ------------------------------------------------------------------------
MaxNotifications == 2   \* rows of raw_notifications

\* NotificationParser.PATTERNS in table order: name and type.
PATTERNS ==
    <<[name |-> "revolut_payment", type |-> "expense"],
      [name |-> "openbank_payment", type |-> "expense"],
      [name |-> "openbank_bizum_received", type |-> "income"],
      [name |-> "openbank_bizum_sent", type |-> "expense"],
      [name |-> "openbank_confirmation", type |-> "non_expense"]>>

\* NotificationParser.NON_EXPENSE_KEYWORDS (accents left out).
NON_EXPENSE_KEYWORDS ==
    {"codigo de confirmacion", "confirmation code", "security code",
     "verificacion", "verification", "balance", "saldo disponible"}

\* str.lower() on the words the model's texts use.
str_lower(word) ==
    CASE word = "Balance" -> "balance"
      [] word = "VERIFICATION" -> "verification"
      [] word = "Codigo de confirmacion" -> "codigo de confirmacion"
      [] OTHER -> word

\* A notification text is a sequence of phrases.  A phrase is the text one
\* pattern matches ("" for none) with the amount and merchant it captures,
\* and it holds one word a deny-list keyword may be found in.
Phrase(pattern, amount, merchant, word) ==
    [pattern |-> pattern, amount |-> amount, merchant |-> merchant, word |-> word]

\* The notification texts of the model; amounts are "5,00", "3,00", "0",
\* "1,2,3", which [\d,]+ captures and Decimal refuses, and "-5,00" and
\* "+3,00", which [\d,]+ does not match.
NotificationTexts ==
    LET five == <<"5", ",", "0", "0">>
        three == <<"3", ",", "0", "0">>
        odd == <<"1", ",", "2", ",", "3">>
        minus_five == <<"-">> \o five
        plus_three == <<"+">> \o three
        paid == Phrase("revolut_payment", five, "Bar", "pagado")
        card == Phrase("openbank_payment", three, "Cafe", "tarjeta")
        received == Phrase("openbank_bizum_received", three, "Ana", "recibido")
        sent == Phrase("openbank_bizum_sent", five, "Ana", "enviado")
    IN {<<>>,
        <<paid>>, <<card>>, <<received>>, <<sent>>,
        <<received, paid>>, <<sent, received>>, <<sent, card>>,
        <<Phrase("", <<>>, "", "hola")>>,
        <<Phrase("revolut_payment", five, "New Balance", "Balance")>>,
        <<Phrase("", <<>>, "", "VERIFICATION"), paid>>,
        <<Phrase("openbank_confirmation", <<>>, "", "Codigo de confirmacion")>>,
        <<Phrase("revolut_payment", odd, "Bar", "pagado")>>,
        <<Phrase("revolut_payment", odd, "Bar", "saldo disponible")>>,
        <<Phrase("openbank_bizum_received", odd, "Ana", "recibido"), sent>>,
        <<Phrase("revolut_payment", <<"0">>, "Bar", "pagado")>>,
        <<Phrase("revolut_payment", minus_five, "Bar", "pagado")>>,
        <<Phrase("openbank_bizum_received", plus_three, "Ana", "recibido")>>,
        <<Phrase("openbank_bizum_sent", minus_five, "Ana", "enviado"), received>>}

\* What parse_notification gives: None, a result, or the exception that
\* leaves it (decimal.InvalidOperation is none of the three it catches).
NotAnExpense == [kind |-> "none", pattern_matched |-> "", amount |-> 0, merchant_name |-> ""]
Raised == [kind |-> "raised", pattern_matched |-> "", amount |-> 0, merchant_name |-> ""]

\* re.search(PATTERNS[k].regex, text, re.IGNORECASE): the position in the
\* text of the leftmost phrase the pattern matches, 0 for no match.  A
\* phrase in the wording of a pattern with an amount group matches when
\* [\d,]+ matches the characters written for the amount.
PatternSearch(k, text) ==
    LET Group(amount) ==
            /\ amount # <<>>
            /\ \A i \in 1..Len(amount) :
                  amount[i] = "," \/ \E d \in 1..10 : amount[i] = DigitChars[d]
        hits == {i \in 1..Len(text) :
                    /\ text[i].pattern = PATTERNS[k].name
                    /\ PATTERNS[k].type # "non_expense" => Group(text[i].amount)}
    IN IF hits = {} THEN 0 ELSE CHOOSE i \in hits : \A j \in hits : i <= j

\* The body of `if match:` with the amount kept as it was converted.
Extracted_AsConverted(k, text) ==
    LET match == text[PatternSearch(k, text)]
        amount == Decimal(Subst(match.amount, ",", "."))
    IN IF PATTERNS[k].type = "non_expense" THEN NotAnExpense
       ELSE IF ~amount.ok THEN Raised
       ELSE [kind |-> "expense", pattern_matched |-> PATTERNS[k].name,
             amount |-> amount.cents, merchant_name |-> match.merchant]

\* The body of `if match:` for pattern k.
Extracted(k, text) ==
    LET match == text[PatternSearch(k, text)]
        amount == Decimal(Subst(match.amount, ",", "."))
        abs == IF amount.cents < 0 THEN -amount.cents ELSE amount.cents
    IN IF PATTERNS[k].type = "non_expense" THEN NotAnExpense
       ELSE IF ~amount.ok THEN Raised
       ELSE [kind |-> "expense", pattern_matched |-> PATTERNS[k].name,
             amount |-> IF PATTERNS[k].type = "expense" THEN -abs ELSE abs,
             merchant_name |-> match.merchant]

\* `for keyword in cls.NON_EXPENSE_KEYWORDS: if keyword.lower() in text_lower`
HasKeyword(text) ==
    \E i \in 1..Len(text) : str_lower(text[i].word) \in NON_EXPENSE_KEYWORDS

\* parse_notification with the patterns tried before the deny-list.
parse_notification_PatternsFirst(text) ==
    LET hits == {k \in 1..Len(PATTERNS) : PatternSearch(k, text) # 0}
    IN IF text = <<>> THEN NotAnExpense
       ELSE IF hits # {}
       THEN Extracted(CHOOSE k \in hits : \A l \in hits : k <= l, text)
       ELSE NotAnExpense

\* parse_notification with the last matching pattern of the table used.
parse_notification_LastPattern(text) ==
    LET hits == {k \in 1..Len(PATTERNS) : PatternSearch(k, text) # 0}
    IN IF text = <<>> THEN NotAnExpense
       ELSE IF HasKeyword(text) THEN NotAnExpense
       ELSE IF hits = {} THEN NotAnExpense
       ELSE Extracted(CHOOSE k \in hits : \A l \in hits : l <= k, text)

\* NotificationParser.parse_notification, on the text of the notification
parse_notification(text) ==
    LET hits == {k \in 1..Len(PATTERNS) : PatternSearch(k, text) # 0}
    IN IF text = <<>> THEN NotAnExpense
       ELSE IF HasKeyword(text) THEN NotAnExpense
       ELSE IF hits = {} THEN NotAnExpense
       ELSE Extracted(CHOOSE k \in hits : \A l \in hits : k <= l, text)

\* POST /notifications/ with a payload of one notification
receive_notifications(text) ==
    /\ \A w \in Workers : ~Busy(w)
    /\ db_lock = 0
    /\ Len(raw_notifications) < MaxNotifications
    /\ raw_notifications' =
          Append(raw_notifications,
                 [id |-> Len(raw_notifications) + 1, text |-> text,
                  is_expense |-> "null"])
    /\ response' = 200
    /\ last_op' = [op |-> "receive", outcome |-> "ok", done |-> 1, skipped |-> 0]
    /\ prev_run' = NoRun
    /\ UNCHANGED <<import_history, bank_accounts, raw_expenses, db_lock, sess,
                   run_log, expenses, merchant_aliases, tags, expense_tags, rules,
                   duplicates, parsed_expenses, merged>>

\* POST /notifications/parse-all: every row is unprocessed and unlinked (no
\* request of the model accepts or discards one).  An exception ends the
\* request before its commit.
parse_all_notifications ==
    LET parsed_data == [i \in 1..Len(raw_notifications) |->
                           parse_notification(raw_notifications[i].text)]
        ids == 1..Len(raw_notifications)
        raised == \E i \in ids : parsed_data[i].kind = "raised"
        parsed == {i \in ids : parsed_data[i].kind = "expense"}
    IN /\ \A w \in Workers : ~Busy(w)
       /\ db_lock = 0
       /\ raw_notifications' =
             IF raised THEN raw_notifications
             ELSE [i \in ids |->
                      IF i \in parsed THEN raw_notifications[i]
                      ELSE [raw_notifications[i] EXCEPT !.is_expense = "false"]]
       /\ parsed_expenses' =
             IF raised THEN {}
             ELSE {[notification_id |-> i,
                    pattern_matched |-> parsed_data[i].pattern_matched,
                    amount |-> parsed_data[i].amount,
                    merchant_name |-> parsed_data[i].merchant_name] : i \in parsed}
       /\ response' = IF raised THEN 500 ELSE 200
       /\ last_op' = [op |-> "parse_all",
                      outcome |-> IF raised THEN "invalid_operation" ELSE "ok",
                      done |-> IF raised THEN 0 ELSE Cardinality(parsed),
                      skipped |-> IF raised THEN 0
                                  ELSE Len(raw_notifications) - Cardinality(parsed)]
       /\ prev_run' = NoRun
       /\ UNCHANGED <<import_history, bank_accounts, raw_expenses, db_lock, sess,
                      run_log, expenses, merchant_aliases, tags, expense_tags,
                      rules, duplicates, merged>>

NextNotifications ==
    \/ \E text \in NotificationTexts : receive_notifications(text)
    \/ parse_all_notifications

SpecNotifications == Init /\ [][NextNotifications]_vars

\* The queue reviewed by hand, with the duplicate finder asked in between.
NextDuplicates ==
    \/ find_duplicates
    \/ \E id \in RequestIds, data \in {D_NONE, D_BAR} : process_raw_expense(id, data)
    \/ \E id \in RequestIds : discard_raw_expense(id)
    \/ \E ids \in IdLists : archive_raw_expenses(ids)
    \/ \E ids \in MergeIdLists : merge_expenses(ids, D_NONE)

InitDuplicates == QueueAfterImport /\ rules = <<>>

SpecDuplicates == InitDuplicates /\ [][NextDuplicates]_vars

\* ------------------------------------------------------------------------
\* Expenses, and the queue between two imports of one statement
\* ------------------------------------------------------------------------
MaxReimports == 1       \* uploads of the statement FB after the first
MaxMerges == 1          \* merged expenses stored at one time
MaxExpenseId == 3       \* no request adds expenses past this rowid

\* db.delete(expense): the row, and with it its rows of the secondary table
\* expense_tags.  No raw expense is touched.
DeleteExpense(Q, expense_id) ==
    [Q EXCEPT !.expenses = {e \in @ : e.id # expense_id},
              !.expense_tags = {t \in @ : t.expense_id # expense_id}]

\* DELETE /expenses/{expense_id}
DeleteReply(Q, expense_id) ==
    IF ~\E e \in Q.expenses : e.id = expense_id
    THEN Reply(Q, 404, "not_found", 0, 1)
    ELSE Reply(DeleteExpense(Q, expense_id), 200, "ok", 1, 0)

\* POST /expenses/{expense_id}/requeue
RequeueReply(Q, expense_id) ==
    IF ~\E e \in Q.expenses : e.id = expense_id
    THEN Reply(Q, 404, "not_found", 0, 1)
    ELSE IF (CHOOSE e \in Q.expenses : e.id = expense_id).raw_expense_id = 0
    THEN Reply(Q, 400, "no_raw_expense", 0, 1)
    ELSE Reply(DeleteExpense(Q, expense_id), 200, "ok", 1, 0)

delete_expense(expense_id) ==
    Answer("delete_expense", DeleteReply(Tables, expense_id))

requeue_expense(expense_id) ==
    Answer("requeue", RequeueReply(Tables, expense_id))

\* The ids a request may name: those of the stored rows and one of no row.
RawIds == {r.id : r \in raw_expenses} \cup {NextId(raw_expenses)}
ExpenseIds == {e.id : e \in expenses} \cup {NextId(expenses)}
RawIdLists == UNION {[1..n -> RawIds] : n \in 1..MaxIds}

\* Queue and expense requests over the records of one import.
NextLedger ==
    \/ /\ NextId(expenses) <= MaxExpenseId
       /\ \E id \in RawIds, data \in {D_NONE, D_CAFE} : process_raw_expense(id, data)
    \/ \E id \in RawIds : discard_raw_expense(id)
    \/ /\ NextId(expenses) <= MaxExpenseId
       /\ \E ids \in RawIdLists : archive_raw_expenses(ids)
    \/ /\ NextId(expenses) <= MaxExpenseId
       /\ Cardinality(merged) < MaxMerges
       /\ \E ids \in {l \in RawIdLists : Len(l) >= 2} : merge_expenses(ids, D_NONE)
    \/ \E id \in ExpenseIds : delete_expense(id)
    \/ \E id \in ExpenseIds : requeue_expense(id)

InitLedger == QueueAfterImport /\ rules = <<>>

SpecLedger == InitLedger /\ [][NextLedger]_vars

\* Queue requests, and the statement uploaded and processed again.
NextReimport ==
    \/ \E id \in RawIds : process_raw_expense(id, D_NONE)
    \/ \E id \in RawIds : discard_raw_expense(id)
    \/ apply_rules
    \/ \E id \in RawIds : archive_raw_expenses(<<id>>)
    \/ /\ Cardinality(merged) < MaxMerges
       /\ \E id, other \in RawIds : merge_expenses(<<id, other>>, D_NONE)
    \/ \E id \in RawIds : bulk_save_raw_expenses(<<id>>)
    \/ Len(import_history) < 1 + MaxReimports /\ upload_xlsx(FB, 0)
    \/ \E j \in 1..(1 + MaxReimports) : process_import_file_alone(j)

\* The queue as the import of FB left it.
InitReimport == QueueAfter(ImportedOf(FB)) /\ rules = <<R_DISCARD_BAR, R_SAVE_CAFE>>

SpecReimport == InitReimport /\ [][NextReimport]_vars

\* ------------------------------------------------------------------------
\* Properties of the import orchestrator
\* ------------------------------------------------------------------------
FileNamed(name) == CHOOSE f \in Files : f.name = name

DistinctFingerprints(file) ==
    \A k, l \in 1..Len(file.txs) :
        k # l => file.txs[k].external_id # file.txs[l].external_id

\* History: job j was run right after another job of the same file, both
\* runs served alone, both returned, nothing else run in between.
TwiceInARow(j) ==
    LET r == run_log[j]
    IN /\ r.last.outcome = "returned" /\ r.last.serial
       /\ r.pred.outcome = "returned" /\ r.pred.serial
       /\ r.pred.job # j
       /\ r.pred.file = r.last.file
       /\ r.pred.account = r.last.account
       /\ DistinctFingerprints(FileNamed(r.last.file))

SecondRunSkipsAll(j) ==
    LET r == run_log[j]
    IN /\ r.last.imported = 0
       /\ r.last.skipped = r.last.n
       /\ r.last.created = 0

\* C1 as stated: a file of N transactions with pairwise-distinct fingerprints,
\* imported twice in a row into the same account, gives imported = N on the
\* first run and imported = 0, skipped = N and no new pending record on the
\* second.
C1_TwiceInARow_AsStated ==
    \A j \in JobIds :
        TwiceInARow(j) =>
            /\ run_log[j].pred.imported = run_log[j].pred.n
            /\ SecondRunSkipsAll(j)

\* C1 (amended): the same, for a file none of whose fingerprints is stored
\* under the account when the first of the two runs starts.
C1_TwiceInARow ==
    \A j \in JobIds :
        TwiceInARow(j) /\ run_log[j].pred.fresh =>
            /\ run_log[j].pred.imported = run_log[j].pred.n
            /\ SecondRunSkipsAll(j)

C1_Witness ==
    \E j \in JobIds :
        /\ TwiceInARow(j)
        /\ run_log[j].pred.fresh
        /\ run_log[j].last.n >= 2

\* C2: no two raw expenses share (bank_account_id, external_id).
C2_UniquePending ==
    \A r1, r2 \in raw_expenses :
        /\ r1.bank_account_id = r2.bank_account_id
        /\ r1.external_id = r2.external_id
        => r1 = r2

Overlapping(f, g) ==
    \E k \in 1..Len(f.txs), l \in 1..Len(g.txs) :
        f.txs[k].external_id = g.txs[l].external_id

\* Two jobs of the same file or of overlapping files have both been run, one
\* of them storing rows.
C2_Witness ==
    \E j1, j2 \in JobIds :
        /\ j1 # j2
        /\ run_log[j1].last.outcome = "returned"
        /\ run_log[j1].last.created > 0
        /\ run_log[j2].last.outcome # "none"
        /\ run_log[j2].last.account = run_log[j1].last.account
        /\ Overlapping(import_history[j1].file, import_history[j2].file)

\* C3: once process_import has raised, the job is failed with an error
\* message, its counts are unset and no raw expense of its file is stored.
C3_FailureLeavesFailedJob ==
    \A j \in JobIds :
        run_log[j].last.outcome = "raised" /\ run_log[j].starts = 1 =>
            /\ import_history[j].status = "failed"
            /\ import_history[j].error_message # NoText
            /\ import_history[j].records_imported = NoCount
            /\ import_history[j].records_skipped = NoCount
            /\ \A r \in raw_expenses : r.source_file # j

\* C4: an invocation whose insert lost against the uniqueness constraint
\* counts the conflict as a skip and ends completed.
C4_ConflictIsSkip ==
    \A j \in JobIds :
        run_log[j].last.conflict /\ run_log[j].starts = 1 =>
            import_history[j].status = "completed"

ThreeRows(file) == file.ok /\ Len(file.txs) = 3

SameDateAmount(file) ==
    \A k, l \in 1..Len(file.txs) :
        /\ file.txs[k].transaction_date = file.txs[l].transaction_date
        /\ file.txs[k].amount = file.txs[l].amount

SameFingerprint(file) ==
    \A k, l \in 1..Len(file.txs) :
        file.txs[k].external_id = file.txs[l].external_id

\* History: job j was run alone, returned, and found none of its
\* transactions stored.
FreshRun(j) ==
    /\ run_log[j].last.outcome = "returned"
    /\ run_log[j].last.serial
    /\ run_log[j].last.fresh

\* C5 as stated: three transactions with identical (transaction_date, amount)
\* in one file, none stored yet, give imported = 1 and skipped = 2.
C5_ThreeIdentical_AsStated ==
    \A j \in JobIds :
        /\ FreshRun(j)
        /\ ThreeRows(import_history[j].file)
        /\ SameDateAmount(import_history[j].file)
        => /\ run_log[j].last.imported = 1
           /\ run_log[j].last.skipped = 2

\* C5 (amended): three transactions with identical (transaction_date, amount,
\* raw_description), hence one fingerprint, none stored yet, give
\* imported = 1 and skipped = 2.
C5_ThreeIdentical ==
    \A j \in JobIds :
        /\ FreshRun(j)
        /\ ThreeRows(import_history[j].file)
        /\ SameFingerprint(import_history[j].file)
        => /\ run_log[j].last.imported = 1
           /\ run_log[j].last.skipped = 2
           /\ run_log[j].last.created = 1

C5_Witness ==
    \E j \in JobIds :
        /\ FreshRun(j)
        /\ ThreeRows(import_history[j].file)
        /\ SameFingerprint(import_history[j].file)

StatusMoves ==
    {<<"pending", "processing">>, <<"processing", "completed">>,
     <<"processing", "failed">>}

\* C6: a job's status only moves pending -> processing -> completed | failed,
\* and a completed or failed job never changes again.
C6_TerminalJobs ==
    [][\A j \in JobIds :
          /\ \/ import_history'[j].status = import_history[j].status
             \/ <<import_history[j].status, import_history'[j].status>>
                    \in StatusMoves
          /\ import_history[j].status \in {"completed", "failed"}
                => import_history'[j] = import_history[j]]_vars

\* ------------------------------------------------------------------------
\* Properties of the review queue
\* ------------------------------------------------------------------------
LinkedTo(exps, raw_id) == {e \in exps : e.raw_expense_id = raw_id}

\* C7: every raw expense is linked to at most one finalized record, whatever
\* process, bulk-save, archive, merge and apply-rules requests were served: a
\* request that names an already finalized raw expense adds no second one.
C7_OneExpensePerRaw ==
    \A id \in RequestIds : Cardinality(LinkedTo(expenses, id)) <= 1

\* A request has just been refused for naming a finalized raw expense, and
\* every raw expense of the queue is finalized.
C7_Witness ==
    /\ last_op.outcome = "already_processed"
    /\ raw_expenses # {}
    /\ \A r \in raw_expenses : Cardinality(LinkedTo(expenses, r.id)) = 1

NotPending(raw_id) ==
    ~Found(raw_expenses, raw_id) \/ ExistingExpense(expenses, raw_id)

\* This step answers a merge request with 404 or 400 and writes nothing.
MergeRejected ==
    /\ response' \in {400, 404}
    /\ UNCHANGED <<raw_expenses, expenses, merchant_aliases, tags, expense_tags>>

\* C8: a merge request one of whose ids names a missing or an already
\* finalized raw expense is rejected and leaves every table as it was.  Put
\* the other way round: a merge step that is not such a rejection answers
\* only requests all of whose ids name pending raw expenses.
C8_RejectedMergeIsNoOp ==
    [][last_op'.op = "merge" =>
          \/ MergeRejected
          \/ \A ids \in MergeIdLists, data \in MergeData :
                merge_expenses(ids, data) =>
                    \A k \in 1..Len(ids) : ~NotPending(ids[k])]_vars

\* A merge has just been refused for a missing or finalized id while a
\* pending raw expense, an expense and an alias are there.
C8_Witness ==
    /\ last_op.op = "merge"
    /\ last_op.outcome \in {"not_found", "already_processed"}
    /\ \E r \in raw_expenses : ~ExistingExpense(expenses, r.id)
    /\ expenses # {}
    /\ merchant_aliases # {}

\* What a successful merge of the raw expenses ids must leave.
MergedAsSpecified(ids) ==
    LET raws == [k \in 1..Len(ids) |-> RawOf(raw_expenses, ids[k])]
        new == expenses' \ expenses
        aggregate == {e \in new : ~e.archived}
    IN /\ expenses \subseteq expenses'
       /\ raw_expenses' = raw_expenses
       /\ Cardinality(new) = Len(ids) + 1
       /\ Cardinality(aggregate) = 1
       /\ \A e \in aggregate :
             /\ e.raw_expense_id = 0
             /\ e.amount = total_amount(raws)
             /\ \A k \in 1..Len(ids) : e.transaction_date <= raws[k].transaction_date
             /\ \E k \in 1..Len(ids) : e.transaction_date = raws[k].transaction_date
             /\ e.currency = raws[1].currency
             /\ e.bank_account_id = raws[1].bank_account_id
       /\ \A k \in 1..Len(ids) :
             /\ Cardinality(LinkedTo(expenses', ids[k])) = 1
             /\ \A e \in LinkedTo(expenses', ids[k]) :
                   /\ e \in new
                   /\ e.archived
                   /\ e.amount = raws[k].amount
                   /\ e.transaction_date = raws[k].transaction_date

\* C9: a successful merge of N >= 2 pending records adds one non-archived
\* expense with the summed amount, the earliest date and the currency and
\* account of the first listed record, and one archived expense linked to
\* each original, which stays in raw_expenses and is pending no more.
C9_MergeAggregates ==
    [][last_op'.op = "merge" /\ response' = 200 =>
          \A ids \in MergeIdLists, data \in MergeData :
              merge_expenses(ids, data) => MergedAsSpecified(ids)]_vars

\* The merge of the records of -15.99 EUR on day 1 and -9.99 USD on day 3,
\* the later one listed first, has just been served.
C9_Witness ==
    /\ last_op.op = "merge"
    /\ last_op.outcome = "ok"
    /\ \E e \in expenses :
          /\ e.raw_expense_id = 0
          /\ ~e.archived
          /\ e.amount = -2598
          /\ e.transaction_date = 1
          /\ e.currency = "USD"

\* The position in the rules table of the first active rule that matches raw,
\* 0 when none does.
FirstActiveMatch(raw) ==
    LET hits == {k \in 1..Len(rules) : rules[k].active /\ _matches_rule(raw, rules[k])}
    IN IF hits = {} THEN 0 ELSE CHOOSE k \in hits : \A l \in hits : k <= l

\* This step leaves raw as the action of rule k leaves it, and as no other
\* rule of the model does.
RuleApplied(raw, k) ==
    IF rules[k].action = "discard"
    THEN raw \notin raw_expenses' /\ LinkedTo(expenses', raw.id) = {}
    ELSE /\ raw \in raw_expenses'
         /\ Cardinality(LinkedTo(expenses', raw.id)) = 1
         /\ \A e \in LinkedTo(expenses', raw.id) :
               /\ ~e.archived
               /\ e.category_id = rules[k].save_data.category_id
               /\ \E a \in merchant_aliases' :
                     /\ a.id = e.merchant_alias_id
                     /\ a.display_name = rules[k].save_data.merchant_name

\* C10: an apply_rules pass applies to each pending record the first active
\* rule in creation order that matches it and no other rule; a record that
\* a discard rule matches before a save rule is deleted and gets no expense.
\* A pass that raises applies no rule at all.
C10_FirstMatchWins ==
    [][last_op'.op = "apply_rules" =>
          IF last_op'.outcome = "ok"
          THEN \A raw \in {r \in raw_expenses : ~ExistingExpense(expenses, r.id)} :
                  LET k == FirstActiveMatch(raw)
                  IN IF k = 0
                     THEN raw \in raw_expenses' /\ LinkedTo(expenses', raw.id) = {}
                     ELSE RuleApplied(raw, k)
          ELSE UNCHANGED <<raw_expenses, expenses, merchant_aliases, tags,
                           expense_tags>>]_vars

\* A pass under a discard rule placed before a save rule, both matching, has
\* just emptied the queue without creating any expense.
C10_Witness ==
    /\ rules = <<R_DISCARD_XLSX, R_SAVE_CAFE>>
    /\ last_op.op = "apply_rules"
    /\ last_op.outcome = "ok"
    /\ last_op.done = Len(FE.txs)
    /\ raw_expenses = {}
    /\ expenses = {}

\* A regex rule whose pattern is over the length cap or does not compile.
BadPattern(rule) ==
    /\ rule.match_type = "regex"
    /\ Len(rule.match_value) > 500 \/ re_compile(rule.match_value) # "ok"

\* The first active rule with a usable pattern that matches raw, 0 for none.
FirstGoodMatch(raw) ==
    LET hits == {k \in 1..Len(rules) :
                    /\ rules[k].active
                    /\ ~BadPattern(rules[k])
                    /\ _matches_rule(raw, rules[k])}
    IN IF hits = {} THEN 0 ELSE CHOOSE k \in hits : \A l \in hits : k <= l

\* C11: evaluating a regex rule never aborts the apply_rules pass: a pattern
\* longer than 500 characters, or one that fails to compile, counts as no
\* match for every record, and the remaining rules and records are still
\* evaluated.  (A pass ends without its rules evaluated to the end only when
\* a save breaks a constraint; every record left pending by a finished pass
\* matched no usable rule, every other one got its first usable match.)
C11_BadPatternIsNoMatch ==
    [][last_op'.op = "apply_rules" =>
          /\ last_op'.outcome \in {"no_rules", "ok", "integrity"}
          /\ last_op'.outcome = "ok" =>
                \A raw \in {r \in raw_expenses : ~ExistingExpense(expenses, r.id)} :
                    LET k == FirstGoodMatch(raw)
                    IN IF k = 0
                       THEN /\ raw \in raw_expenses'
                            /\ ~ExistingExpense(expenses', raw.id)
                       ELSE RuleApplied(raw, k)]_vars

\* The two faults the code handles, met by a finished pass: the over-long
\* and the unclosed pattern come first and a later rule still saves.
C11_HandledFaults ==
    /\ last_op.op = "apply_rules" /\ last_op.outcome = "ok" /\ last_op.done > 0
    /\ Len(rules) = 2
    /\ rules[1] \in {R_LONG, R_UNCLOSED}
    /\ rules[2] = R_SAVE_CAFE

\* The raw expenses no expense links to.
PendingRaws == {r \in raw_expenses : ~ExistingExpense(expenses, r.id)}

\* The other pending records and the finalized records with raw's date and
\* amount, as the entries of a find_duplicates response.
Siblings(raw) ==
    {[type |-> "raw", id |-> r.id] :
        r \in {o \in PendingRaws :
                  /\ o.id # raw.id
                  /\ o.transaction_date = raw.transaction_date
                  /\ o.amount = raw.amount}}
    \cup {[type |-> "saved", id |-> e.id] :
             e \in {x \in expenses :
                       /\ x.transaction_date = raw.transaction_date
                       /\ x.amount = raw.amount}}

\* C12: find_duplicates reports a pending record exactly when some other
\* pending record or some finalized record (archived or not) has the same
\* (transaction_date, amount); the siblings listed for it are exactly those
\* other pending records (never the record itself, never a raw record that is
\* already finalized) and those finalized records.
C12_DuplicatesExact ==
    last_op.op = "find_duplicates" =>
        /\ DOMAIN duplicates = {r.id : r \in {q \in PendingRaws : Siblings(q) # {}}}
        /\ \A r \in PendingRaws :
              r.id \in DOMAIN duplicates => duplicates[r.id] = Siblings(r)

\* What does hold: the records reported are the right ones, and each list
\* has every sibling and never the record itself.
C12_ReportedAndComplete ==
    last_op.op = "find_duplicates" =>
        /\ DOMAIN duplicates = {r.id : r \in {q \in PendingRaws : Siblings(q) # {}}}
        /\ \A r \in PendingRaws :
              r.id \in DOMAIN duplicates =>
                  /\ Siblings(r) \subseteq duplicates[r.id]
                  /\ [type |-> "raw", id |-> r.id] \notin duplicates[r.id]

\* A job process_import is through with, and the positions of the parsers
\* whose can_parse is true for its file.
Settled(j) == import_history[j].status \in {"completed", "failed"}
Able(j) == {k \in 1..Len(PARSERS) : can_parse(PARSERS[k], import_history[j].file)}
FirstAble(j) == PARSERS[CHOOSE k \in Able(j) : \A l \in Able(j) : k <= l]

\* The text that heads the data of each format located by a header row.
HeaderText(parser) ==
    CASE parser = "Bankinter" -> "Fecha contable"
      [] parser = "Bankinter Credit Card" -> "FECHA"
      [] parser = "OpenBank" -> "Fecha Operacion"
      [] OTHER -> ""
HasHeader(parser, rows) ==
    \E k \in 1..Len(rows) : strip(rows[k].first) = HeaderText(parser)

\* The positions of the data rows of a file read by this parser: the
\* completed rows of a Revolut CSV, the rows below the header of a workbook
\* (for the credit card, up to the next Total row).
DataRows(parser, rows) ==
    {k \in 1..Len(rows) :
        IF parser = "Revolut" THEN rows[k].state = "COMPLETED"
        ELSE \E h \in 1..(k - 1) :
                /\ strip(rows[h].first) = HeaderText(parser)
                /\ parser \in {"Bankinter", "OpenBank"} =>
                      \A g \in 1..(h - 1) : rows[g].first # HeaderText(parser)
                /\ parser = "Bankinter Credit Card" =>
                      /\ strip(rows[k].first) # "FECHA"
                      /\ \A t \in h..k : ~HasTotal(strip(rows[t].first))}

\* The amount rule of the specification, on an amount text.
AmountRule(text) ==
    LET Has(c) == \E i \in 1..Len(text) : text[i] = c
    IN IF Has(",") /\ Has(".") THEN Decimal(Subst(Remove(text, "."), ",", "."))
       ELSE IF Has(",") THEN Decimal(Subst(text, ",", "."))
       ELSE Decimal(text)

\* The date and the amount of a row can be parsed.
DateOf(parser, row) ==
    strptime(row.first, IF parser \in {"Revolut", "Bankinter Credit Card"}
                        THEN "%Y-%m-%d" ELSE "%d/%m/%Y")
Wellformed(parser, row) ==
    /\ DateOf(parser, row) # 0
    /\ \/ row.amount.t = "num"
       \/ row.amount.t = "str" /\ AmountRule(row.amount.s).ok

\* C13: for every parser (Revolut, Bankinter, Bankinter Credit Card,
\* OpenBank), a single data row whose date or amount cannot be parsed is
\* skipped and every other valid row of the file is still returned; parse
\* never raises because of one malformed row.  (A file whose format is known
\* and whose header is in place is parsed to the end: its job ends completed,
\* with one transaction per well-formed data row.)
C13_MalformedRowSkipped ==
    \A j \in JobIds :
        LET file == import_history[j].file
        IN Settled(j) /\ Able(j) # {} /\
           (FirstAble(j) # "Revolut" => HasHeader(FirstAble(j), file.rows)) =>
             /\ import_history[j].status = "completed"
             /\ run_log[j].last.n =
                   Cardinality({k \in DataRows(FirstAble(j), file.rows) :
                                   Wellformed(FirstAble(j), file.rows[k])})

\* C14: for each format that locates its data by a header row (Bankinter,
\* Bankinter Credit Card, OpenBank), if no header row is found in the file
\* then parse raises a file-level error, so the import job ends failed and
\* never ends completed with zero records.
C14_NoHeaderFails ==
    \A j \in JobIds :
        Settled(j) /\ Able(j) # {} /\ FirstAble(j) # "Revolut" /\
        ~HasHeader(FirstAble(j), import_history[j].file.rows) =>
            /\ import_history[j].status = "failed"
            /\ import_history[j].error_message # NoText

\* C15: detect_parser returns the parser at the lowest position of the fixed
\* list [Revolut, Bankinter, Bankinter Credit Card, OpenBank] whose
\* can_parse is true for the file; once one predicate is true no later
\* parser is consulted, and there is no scoring or fallback.  (The job is
\* decided by that parser alone: it fails exactly when that parser's parse
\* raises, and otherwise it is booked on that parser's bank with that
\* parser's transactions.)
C15_FirstParserWins ==
    \A j \in JobIds :
        Settled(j) /\ Able(j) # {} =>
            LET parsed == parse(FirstAble(j), import_history[j].file)
            IN /\ import_history[j].status = "completed" <=> parsed.ok
               /\ parsed.ok =>
                     /\ bank_accounts[import_history[j].bank_account_id] = FirstAble(j)
                     /\ run_log[j].last.n = Len(parsed.transactions)

\* A file two parsers can parse has been imported.
C15_Witness ==
    \E j \in JobIds :
        /\ Cardinality(Able(j)) = 2
        /\ import_history[j].status = "completed"
        /\ bank_accounts[import_history[j].bank_account_id] = "Bankinter"

\* C16: if no parser's can_parse returns true for the file, parse_bank_file
\* raises an error whose message names the file, and process_import marks
\* the import job failed with that message and persists no pending record.
C16_UnknownFormatFails ==
    \A j \in JobIds :
        Settled(j) /\ Able(j) = {} =>
            LET name == NatStr(import_history[j].stored_filename)
                message == import_history[j].error_message
            IN /\ import_history[j].status = "failed"
               /\ Len(message) > Len(name)
               /\ SubSeq(message, Len(message) - Len(name) + 1, Len(message)) = name
               /\ SubSeq(message, 1, Len(ERR_UNKNOWN_FORMAT)) = ERR_UNKNOWN_FORMAT
               /\ \A r \in raw_expenses :
                     r.source_file # import_history[j].stored_filename

\* The second job held a file no parser knows, and has been processed
\* after a first job that did import records.
C16_Witness ==
    /\ Len(import_history) = 2
    /\ Settled(2) /\ Able(2) = {}
    /\ raw_expenses # {}

\* C17: every parser that reads an amount from text applies the same rule:
\* with both ',' and '.' present the '.' is dropped and ',' becomes the
\* decimal point; with only ',' present it becomes the decimal point;
\* otherwise the text is parsed as is.  So "1.234,56" gives 1234.56,
\* "123,45" gives 123.45 and "1234.56" gives 1234.56.  (Every data row of an
\* imported workbook with a date and an amount text is stored with the
\* amount the rule gives.)
C17_AmountRule ==
    \A j \in JobIds :
        import_history[j].status = "completed" /\ FirstAble(j) # "Revolut" =>
            LET rows == import_history[j].file.rows
            IN \A k \in DataRows(FirstAble(j), rows) :
                  Wellformed(FirstAble(j), rows[k]) /\ rows[k].amount.t = "str" =>
                      \E r \in raw_expenses :
                          /\ r.transaction_date = DateOf(FirstAble(j), rows[k])
                          /\ r.amount = AmountRule(rows[k].amount.s).cents
                          /\ r.raw_description = rows[k].desc

\* Where the parsers agree with the rule: OpenBank on every text, the two
\* Bankinter parsers on the texts with a comma.
C17_RuleWhereApplied ==
    \A j \in JobIds :
        import_history[j].status = "completed" /\ FirstAble(j) # "Revolut" =>
            LET rows == import_history[j].file.rows
            IN \A k \in DataRows(FirstAble(j), rows) :
                  /\ Wellformed(FirstAble(j), rows[k])
                  /\ rows[k].amount.t = "str"
                  /\ FirstAble(j) = "OpenBank"
                        \/ \E i \in 1..Len(rows[k].amount.s) : rows[k].amount.s[i] = ","
                  => \E r \in raw_expenses :
                          /\ r.transaction_date = DateOf(FirstAble(j), rows[k])
                          /\ r.amount = AmountRule(rows[k].amount.s).cents
                          /\ r.raw_description = rows[k].desc

\* C18: a group operation on N >= 2 pending records creates one synthetic
\* parent finalized record holding the aggregate (summed amount, earliest
\* date) plus one finalized child record per original, each child keeping
\* its own date and amount and pointing at the parent through the
\* parent-reference field.  (The one request that combines pending records
\* is the merge; the records it adds per original are taken as the children.)
C18_ChildrenPointAtParent ==
    [][last_op'.op = "merge" /\ response' = 200 =>
          \A ids \in MergeIdLists, data \in MergeData :
              merge_expenses(ids, data) =>
                  \E parent \in expenses' \ expenses :
                      /\ parent.raw_expense_id = 0
                      /\ parent.amount =
                            total_amount([k \in 1..Len(ids) |->
                                             RawOf(raw_expenses, ids[k])])
                      /\ \A k \in 1..Len(ids) :
                            /\ parent.transaction_date
                                  <= RawOf(raw_expenses, ids[k]).transaction_date
                            /\ \E child \in LinkedTo(expenses', ids[k]) :
                                  /\ child.amount = RawOf(raw_expenses, ids[k]).amount
                                  /\ child.transaction_date =
                                        RawOf(raw_expenses, ids[k]).transaction_date
                                  /\ child.parent_expense_id = parent.id]_vars

\* The text holds a deny-list keyword, in whatever case.
Denied(text) ==
    \E i \in 1..Len(text), keyword \in NON_EXPENSE_KEYWORDS :
        str_lower(text[i].word) = keyword

\* The positions of the patterns that match the text.
Matching(text) == {k \in 1..Len(PATTERNS) : PatternSearch(k, text) # 0}

\* C19: if the notification body contains any deny-list substring (compared
\* case-insensitively), parse_notification returns not-an-expense without
\* trying any pattern, even when a transaction pattern would match the body.
\* (After a parse-all every such notification is marked not an expense and
\* is in no parsed entry, and a parse-all over such notifications alone
\* never fails, whatever their patterns would capture.)
C19_DenyListFirst ==
    last_op.op = "parse_all" =>
        /\ (\A i \in 1..Len(raw_notifications) : Denied(raw_notifications[i].text))
              => response = 200
        /\ response = 200 =>
              \A i \in 1..Len(raw_notifications) :
                  Denied(raw_notifications[i].text) =>
                      /\ raw_notifications[i].is_expense = "false"
                      /\ \A e \in parsed_expenses : e.notification_id # i

\* A parse-all has answered over a denied notification that a pattern
\* matches, next to one that was parsed.
C19_Witness ==
    /\ last_op.op = "parse_all" /\ response = 200
    /\ parsed_expenses # {}
    /\ \E i \in 1..Len(raw_notifications) :
          /\ Denied(raw_notifications[i].text)
          /\ Matching(raw_notifications[i].text) # {}

\* C20: for a notification body not hit by the deny-list, the outcome is
\* determined by the first pattern in table order that matches: its
\* classification and its extractor are used, and no later pattern is tried
\* once one pattern has matched.  (With no match the notification is not an
\* expense; otherwise the parsed entry names the first matching pattern and
\* carries its capture with the sign of its type; a capture Decimal refuses
\* fails the request instead of handing the text to a later pattern.)
C20_FirstPatternDecides ==
    last_op.op = "parse_all" =>
        LET First(text) == CHOOSE k \in Matching(text) : \A l \in Matching(text) : k <= l
            Capture(text) ==
                PatternSearch(First(text), text)
            Open == {i \in 1..Len(raw_notifications) :
                        /\ ~Denied(raw_notifications[i].text)
                        /\ Matching(raw_notifications[i].text) # {}}
            Refused(text) == ~Decimal(Subst(text[Capture(text)].amount, ",", ".")).ok
        IN /\ response = 500 <=> \E i \in Open : Refused(raw_notifications[i].text)
           /\ response = 200 =>
                 \A i \in 1..Len(raw_notifications) :
                     LET text == raw_notifications[i].text
                         entries == {e \in parsed_expenses : e.notification_id = i}
                     IN IF i \notin Open
                        THEN entries = {} /\ raw_notifications[i].is_expense = "false"
                        ELSE /\ Cardinality(entries) = 1
                             /\ \A e \in entries :
                                   /\ e.pattern_matched = PATTERNS[First(text)].name
                                   /\ e.merchant_name = text[Capture(text)].merchant
                                   /\ PATTERNS[First(text)].type = "expense"
                                         => e.amount <= 0
                                   /\ PATTERNS[First(text)].type = "income"
                                         => e.amount >= 0

\* A text two patterns match, the later of the table first in the text,
\* has been parsed; it came out as the income the earlier pattern names.
C20_Witness ==
    /\ last_op.op = "parse_all" /\ response = 200
    /\ \E e \in parsed_expenses :
          /\ Cardinality(Matching(raw_notifications[e.notification_id].text)) = 2
          /\ e.pattern_matched = "openbank_bizum_received"
          /\ e.amount = 300

\* The patterns of one type, and whether a text is written with a sign
\* before an amount.
TypeOf(pattern_name) ==
    PATTERNS[CHOOSE k \in 1..Len(PATTERNS) : PATTERNS[k].name = pattern_name].type

Signed(text) ==
    \E i \in 1..Len(text) :
        text[i].amount # <<>> /\ Head(text[i].amount) \in {"-", "+"}

\* C21: every result of parse_notification has amount <= 0 when the matched
\* pattern is classified as expense and amount >= 0 when it is classified
\* as income, whatever sign the source text carries.  (Checked on the
\* entries of every parse-all answered 200; an amount written with a sign is
\* not matched by the amount group of its pattern, so it reaches no entry
\* of that pattern.)
C21_SignForced ==
    (last_op.op = "parse_all" /\ response = 200) =>
        \A e \in parsed_expenses :
            LET text == raw_notifications[e.notification_id].text
            IN /\ TypeOf(e.pattern_matched) = "expense" => e.amount <= 0
               /\ TypeOf(e.pattern_matched) = "income" => e.amount >= 0
               /\ text[PatternSearch(CHOOSE k \in 1..Len(PATTERNS) :
                                         PATTERNS[k].name = e.pattern_matched,
                                     text)].amount[1] \notin {"-", "+"}

\* A parse-all has produced an expense below zero, an income above zero
\* and the entry of a text that also holds an amount written with a sign.
C21_Witness ==
    /\ last_op.op = "parse_all" /\ response = 200
    /\ \E e \in parsed_expenses :
          TypeOf(e.pattern_matched) = "expense" /\ e.amount < 0
    /\ \E e \in parsed_expenses :
          /\ TypeOf(e.pattern_matched) = "income" /\ e.amount > 0
          /\ Signed(raw_notifications[e.notification_id].text)

\* The amount the first matching pattern captures is one Decimal refuses.
RefusedCapture(text) ==
    /\ Matching(text) # {}
    /\ LET k == CHOOSE k \in Matching(text) : \A l \in Matching(text) : k <= l
       IN /\ PATTERNS[k].type # "non_expense"
          /\ ~Decimal(Subst(text[PatternSearch(k, text)].amount, ",", ".")).ok

\* C30: parse_notification raises no error for any notification body: a
\* body that matches no pattern and no deny-list keyword, and equally a body
\* that matches a pattern whose captured amount text is not a valid decimal
\* (for example several commas), gives not-an-expense.  (No parse-all
\* fails, and after it every such notification is marked not an expense
\* and has no parsed entry.)
C30_NeverRaises ==
    last_op.op = "parse_all" =>
        /\ response = 200
        /\ \A i \in 1..Len(raw_notifications) :
              LET text == raw_notifications[i].text
              IN ((~Denied(text) /\ Matching(text) = {}) \/ RefusedCapture(text)) =>
                    /\ raw_notifications[i].is_expense = "false"
                    /\ \A e \in parsed_expenses : e.notification_id # i

\* The half of C30 that holds: a parse-all over bodies none of which has
\* a capture Decimal refuses does not fail, and a body that matches no
\* pattern and no keyword is marked not an expense.
C30_NoMatchIsNone ==
    (/\ last_op.op = "parse_all"
     /\ \A i \in 1..Len(raw_notifications) :
           Denied(raw_notifications[i].text)
           \/ ~RefusedCapture(raw_notifications[i].text)) =>
        /\ response = 200
        /\ \A i \in 1..Len(raw_notifications) :
              LET text == raw_notifications[i].text
              IN (~Denied(text) /\ Matching(text) = {}) =>
                    /\ raw_notifications[i].is_expense = "false"
                    /\ \A e \in parsed_expenses : e.notification_id # i

\* C24: in the Bankinter Credit Card parser a row is emitted only while
\* inside a data block: a block opens at a row whose first cell is exactly
\* 'FECHA' and closes at the next row whose first cell contains 'Total'.
\* Rows before the first header, rows between a Total row and the next
\* header, and the header and Total rows themselves are never emitted; a
\* later header row reopens a block.  (A completed job of a credit card
\* workbook parsed one transaction per well-formed row inside a block, and
\* every record stored from the workbook is such a row.)
C24_BlocksOnly ==
    \A j \in JobIds :
        import_history[j].status = "completed" /\ Able(j) # {}
        /\ FirstAble(j) = "Bankinter Credit Card" =>
            LET rows == import_history[j].file.rows
                inside == {k \in DataRows("Bankinter Credit Card", rows) :
                              Wellformed("Bankinter Credit Card", rows[k])}
            IN /\ run_log[j].last.n = Cardinality(inside)
               /\ \A r \in raw_expenses :
                     r.source_file = import_history[j].stored_filename =>
                        \E k \in inside :
                            /\ r.transaction_date =
                                  DateOf("Bankinter Credit Card", rows[k])
                            /\ r.raw_description = rows[k].desc
                            /\ rows[k].amount.t = "num" => r.amount = rows[k].amount.n

\* A workbook with two data blocks, and dated rows before, between and
\* after them, has been imported: one record from each block.
C24_Witness ==
    \E j \in JobIds :
        LET rows == import_history[j].file.rows
        IN /\ import_history[j].status = "completed"
           /\ Able(j) # {} /\ FirstAble(j) = "Bankinter Credit Card"
           /\ Cardinality({k \in 1..Len(rows) : strip(rows[k].first) = "FECHA"}) = 2
           /\ Cardinality({r \in raw_expenses :
                              r.source_file = import_history[j].stored_filename}) = 2
           /\ \E k \in 1..Len(rows) :
                 /\ k \notin DataRows("Bankinter Credit Card", rows)
                 /\ Wellformed("Bankinter Credit Card", rows[k])

\* The pending raw expenses some active rule matches.
Matched == {r \in PendingRaws : FirstActiveMatch(r) # 0}

\* C22: after an apply_rules pass, every pending record matched by some
\* active rule has left the pending set (deleted for a discard rule;
\* finalized with exactly one record carrying the raw record's date, amount,
\* currency and account for a save rule), every unmatched pending record is
\* unchanged, and the returned counts satisfy processed == discarded + saved
\* == number of matched records.  (Checked on every pass that returns
\* counts; the rule applied to a record is the first active one that
\* matches it.)
C22_PassAppliesRules ==
    [][last_op'.op = "apply_rules" /\ response' = 200 =>
          /\ \A raw \in Matched :
                IF rules[FirstActiveMatch(raw)].action = "discard"
                THEN raw \notin raw_expenses' /\ LinkedTo(expenses', raw.id) = {}
                ELSE /\ raw \in raw_expenses'
                     /\ Cardinality(LinkedTo(expenses', raw.id)) = 1
                     /\ \A e \in LinkedTo(expenses', raw.id) :
                           /\ e.transaction_date = raw.transaction_date
                           /\ e.amount = raw.amount
                           /\ e.currency = raw.currency
                           /\ e.bank_account_id = raw.bank_account_id
          /\ \A raw \in PendingRaws \ Matched :
                raw \in raw_expenses' /\ LinkedTo(expenses', raw.id) = {}
          /\ \A raw \in raw_expenses \ PendingRaws : raw \in raw_expenses'
          /\ expenses \subseteq expenses'
          /\ duplicates'.processed = Cardinality(Matched)
          /\ duplicates'.processed = duplicates'.discarded + duplicates'.saved
          /\ duplicates'.discarded = Cardinality(raw_expenses \ raw_expenses')
          /\ duplicates'.saved = Cardinality(expenses' \ expenses)]_vars

\* A pass has just returned with a record discarded, a record saved and a
\* record no rule matched still pending.
C22_Witness ==
    /\ last_op.op = "apply_rules" /\ response = 200
    /\ duplicates.discarded = 1 /\ duplicates.saved = 1
    /\ PendingRaws # {}

\* The transactions the parser returns for the file of job j.
Parsed(j) ==
    parse_bank_file(import_history[j].stored_filename,
                    import_history[j].file).transactions

\* The run of process_import that has just returned wrote counts that are
\* exact for the file and for the rows this step stored.
RunCountsExact(j) ==
    /\ import_history'[j].records_imported + import_history'[j].records_skipped
          = Len(Parsed(j))
    /\ import_history'[j].records_imported
          = Cardinality(raw_expenses' \ raw_expenses)
    /\ \A r \in raw_expenses' \ raw_expenses :
          r.source_file = import_history[j].stored_filename

\* C23: whenever process_import completes, records_imported +
\* records_skipped equals the number of transactions the parser returned,
\* and records_imported equals the number of pending records that run added
\* to the store.  (Checked at the request in which the run returns, whose
\* commit stores the rows of every run it completes; and afterwards, each
\* completed job's records_imported is the number of stored rows that carry
\* its file.)
C23_CountsExact ==
    [][\A j \in JobIds :
          /\ (/\ prev_run'.job = j /\ prev_run'.outcome = "returned"
              /\ import_history[j].status = "pending"
              /\ \A i \in JobIds \ {j} : import_history'[i] = import_history[i])
                => RunCountsExact(j)
          /\ import_history'[j].status = "completed" =>
                /\ import_history'[j].records_imported
                      + import_history'[j].records_skipped = Len(Parsed(j))
                /\ import_history'[j].records_imported =
                      Cardinality({r \in raw_expenses' :
                                      r.source_file = import_history[j].stored_filename})]_vars

\* A job has completed with rows imported and rows skipped, after an
\* earlier job that left rows of its own.
C23_Witness ==
    \E j \in JobIds :
        /\ j > 1
        /\ import_history[j].status = "completed"
        /\ import_history[j].records_imported > 0
        /\ import_history[j].records_skipped > 0
        /\ \E r \in raw_expenses : r.source_file # import_history[j].stored_filename

\* The same for requests that overlap: the step in which a worker's run
\* returns writes counts that are exact for that run.
C23_RacedRunCounts ==
    [][\A w \in Workers :
          sess[w].pc = "commit" /\ sess'[w].pc \notin {"commit", "handler"} =>
              /\ import_history'[sess[w].job].status = "completed"
              /\ RunCountsExact(sess[w].job)]_vars

\* ------------------------------------------------------------------------
\* Properties of the store across queue, expense and import requests
\* ------------------------------------------------------------------------
\* The fingerprints the first import ingested.
Ingested == {import_history[1].file.txs[k].external_id :
                k \in 1..Len(import_history[1].file.txs)}

\* History: this step is a process_import run of a later upload that returned.
Reimported(j) ==
    /\ j > 1
    /\ import_history[j].status = "pending"
    /\ import_history'[j].status = "completed"

\* C25: after an import and any queue requests (process, bulk-save, archive,
\* merge, rule pass, manual discard, rule discard), importing the same file
\* again creates no pending record for a fingerprint the first import ingested.
C25_ReimportAddsNothing ==
    [][\A j \in JobIds :
          Reimported(j) =>
              \A r \in raw_expenses' \ raw_expenses :
                  ~(r.external_id \in Ingested /\ ~ExistingExpense(expenses', r.id))]_vars

\* What does hold: the later import adds a record only for a fingerprint no
\* stored raw expense of the account carries, whatever became of that record
\* in the queue (saved, archived, merged); a fingerprint comes back only once
\* a discard or a discard rule has deleted its raw expense.
C25_KeptRecordsSkipped ==
    [][\A j \in JobIds :
          Reimported(j) =>
              \A r \in raw_expenses' \ raw_expenses :
                  \A q \in raw_expenses :
                      ~(q.bank_account_id = r.bank_account_id
                        /\ q.external_id = r.external_id)]_vars

\* C26: while a merged expense is stored, none of the raw expenses merged
\* into it is pending again or linked to a separate non-archived expense,
\* under any expense delete, requeue and queue requests.
C26_MergedStayArchived ==
    \A m \in merged :
        \A id \in m.raw_expense_ids :
            /\ ~(Found(raw_expenses, id) /\ ~ExistingExpense(expenses, id))
            /\ \A e \in expenses : e.raw_expense_id = id => e.archived

\* What does hold: the merge itself leaves every raw expense it lists
\* archived-and-linked; only a later delete or requeue of such an archived
\* expense frees its raw expense.
C26_MergeArchives ==
    [][last_op'.op \notin {"delete_expense", "requeue"} =>
          (C26_MergedStayArchived => C26_MergedStayArchived')]_vars

\* C27: every expense whose raw_expense_id is set refers to a stored raw
\* expense, after any queue and expense requests.
C27_LinkedRawExists ==
    \A e \in expenses : e.raw_expense_id # 0 => Found(raw_expenses, e.raw_expense_id)

\* What does hold: only discard_raw_expense breaks a link; every other
\* request, the discard rule of a rule pass included (it deletes pending
\* records only), leaves each linked raw expense stored.
C27_OnlyDiscardBreaksLinks ==
    [][last_op'.op # "discard" => (C27_LinkedRawExists => C27_LinkedRawExists')]_vars

\* C28: when a process-all request ends, every import job that was pending
\* when it started has reached completed or failed.
C28_AllSettled ==
    [][\A w \in Workers :
          sess[w].kind = "all" /\ sess'[w].pc = "idle" =>
              \A k \in 1..Len(sess[w].pending) :
                  import_history'[sess[w].pending[k]].status \in {"completed", "failed"}]_vars

\* The same for the requests that end with their response body (200).
C28_ReturnedAllSettled ==
    [][\A w \in Workers :
          sess[w].kind = "all" /\ sess'[w].pc = "idle" /\ response' = 200 =>
              \A k \in 1..Len(sess[w].pending) :
                  import_history'[sess[w].pending[k]].status \in {"completed", "failed"}]_vars

\* What does hold: a process-all request served with no other request in
\* flight leaves no job pending or processing.
C28_AloneAllSettled ==
    [][process_all_pending_alone =>
          \A j \in JobIds : import_history'[j].status \in {"completed", "failed"}]_vars

\* History: this step is the one run of process_import, of job j, and it returned.
RanAlone(j) ==
    /\ prev_run'.job = j /\ prev_run'.outcome = "returned"
    /\ import_history[j].status = "pending"
    /\ import_history'[j].status = "completed"
    /\ \A i \in JobIds \ {j} : import_history'[i] = import_history[i]

\* C29: when an import job completes, its bank_account_id is the account
\* under which the run stored its records, with or without an upload hint.
C29_JobAccountIsRunAccount ==
    [][\A j \in JobIds :
          RanAlone(j) =>
              /\ import_history'[j].bank_account_id = prev_run'.account
              /\ \A r \in raw_expenses' \ raw_expenses :
                    r.bank_account_id = import_history'[j].bank_account_id]_vars

\* What does hold: without a hint the job gets the account of the run, and
\* every record the run stores carries the account found or created from
\* the parser's bank name.
C29_NoHintJobAccount ==
    [][\A j \in JobIds :
          RanAlone(j) =>
              /\ import_history[j].bank_account_id = 0 =>
                    import_history'[j].bank_account_id = prev_run'.account
              /\ import_history[j].bank_account_id # 0 =>
                    import_history'[j].bank_account_id = import_history[j].bank_account_id
              /\ \A r \in raw_expenses' \ raw_expenses :
                    /\ r.bank_account_id = prev_run'.account
                    /\ bank_accounts'[r.bank_account_id] = import_history[j].file.bank_name]_vars

====
